---------------------------- MODULE Spec2Model ----------------------------
(***************************************************************************)
(* A model of the CP-1610 emulator core of intv-web: the shared Bus        *)
(* (src/src/Bus.ts), the memory devices RAM and ROM (src/src/RAM.ts,       *)
(* src/unnamed/part_003), the CPU's bus-sequence state machine             *)
(* (src/src/cp1610.ts, class CP1610 at line 1937) and the host tick loop   *)
(* that clocks them (src/src/cp1610.test.ts, tick at line 406).            *)
(*                                                                         *)
(* One host tick is bus.clock() followed by clock() on every device in     *)
(* registration order: the CPU, the RAM, the ROM.  The variable pc is the  *)
(* position inside that loop.                                              *)
(***************************************************************************)
EXTENDS Integers, Sequences, FiniteSets, TLC

VARIABLES
  bus,          \* the Bus object: data, flags, ticks
  cpu,          \* the CP1610 object: its fields, by their source names
  mem,          \* the memory devices, in registration order (RAM, ROM)
  pc,           \* position in the host tick: 0 bus.clock, 1 cpu.clock, 2.. devices
  cycles,       \* the harness's count of host ticks
  thrown,       \* TRUE once a clock() has thrown UnreachableCaseError
  obs           \* observations recorded for the properties (no effect on the program)

vars == <<bus, cpu, mem, pc, cycles, thrown, obs>>

---------------------------------------------------------------------------
(* Bounds of the model *)

\* number of host ticks the harness clocks before it stops
MaxCycles == 176

\* words of the RAM window (the harness uses 0x1000)
RamLen == 4

---------------------------------------------------------------------------
(* 16-bit arithmetic and bit operations, as JavaScript computes them *)

\* the value a Uint16Array element or the Bus.data setter keeps
W16(x) == x % 65536

Pow2(n) == IF n = 0 THEN 1 ELSE IF n = 1 THEN 2 ELSE IF n = 2 THEN 4
           ELSE IF n = 3 THEN 8 ELSE IF n = 4 THEN 16 ELSE IF n = 5 THEN 32
           ELSE IF n = 6 THEN 64 ELSE IF n = 7 THEN 128 ELSE IF n = 8 THEN 256
           ELSE IF n = 9 THEN 512 ELSE IF n = 10 THEN 1024 ELSE IF n = 11 THEN 2048
           ELSE IF n = 12 THEN 4096 ELSE IF n = 13 THEN 8192
           ELSE IF n = 14 THEN 16384 ELSE IF n = 15 THEN 32768 ELSE 65536

\* bit k of x (x >= 0)
Bit(x, k) == (x \div Pow2(k)) % 2

RECURSIVE BitAndN(_, _, _)
BitAndN(a, b, n) ==
  IF n = 0 THEN 0
  ELSE (IF a % 2 = 1 /\ b % 2 = 1 THEN 1 ELSE 0)
       + 2 * BitAndN(a \div 2, b \div 2, n - 1)

RECURSIVE BitXorN(_, _, _)
BitXorN(a, b, n) ==
  IF n = 0 THEN 0
  ELSE (IF a % 2 # b % 2 THEN 1 ELSE 0)
       + 2 * BitXorN(a \div 2, b \div 2, n - 1)

RECURSIVE BitOrN(_, _, _)
BitOrN(a, b, n) ==
  IF n = 0 THEN 0
  ELSE (IF a % 2 = 1 \/ b % 2 = 1 THEN 1 ELSE 0)
       + 2 * BitOrN(a \div 2, b \div 2, n - 1)

\* seeded fault: the exclusive or is computed as an inclusive or
Xor16_AsOr(a, b) == BitOrN(a, b, 16)

\* a & b, a ^ b, a | b on 16-bit operands
And16(a, b) == BitAndN(a, b, 16)
Xor16(a, b) == BitXorN(a, b, 16)
Or16(a, b) == BitOrN(a, b, 16)

\* seeded fault: the sign of a word is taken from bit 14
Sign16_Bit14(x) == Bit(x, 14) = 1

\* (x & 0x8000) !== 0
Sign16(x) == Bit(x, 15) = 1

---------------------------------------------------------------------------
(* Bus.ts *)

NACT == 0
ADAR == 1
IAB == 2
DTB == 3
BAR == 4
DW == 5
DWS == 6
INTAK == 7

\* the value of a null field (_addr, jumpOperand1, jumpOperand2)
null == -1

\* set data(_data): the setter masks to 16 bits
SetData(b, v) == [b EXCEPT !.data = W16(v)]

\* seeded fault: Bus.clock() puts the phase back to NACT when the tick wraps
BusClockOp_ResetsPhase(b) ==
  LET t == (b.ticks + 1) % 4 IN
  [b EXCEPT !.ticks = t,
            !.flags = IF t = 0 THEN NACT ELSE b.flags,
            !.data = IF t = 3 /\ b.flags = NACT THEN 65535 ELSE b.data]

\* seeded fault: Bus.clock() sets the idle word when the tick wraps to 0
BusClockOp_OnWrap(b) ==
  LET t == (b.ticks + 1) % 4 IN
  [b EXCEPT !.ticks = t,
            !.data = IF t = 0 /\ b.flags = NACT THEN 65535 ELSE b.data]

\* Bus.clock()
BusClockOp(b) ==
  LET t == (b.ticks + 1) % 4 IN
  [b EXCEPT !.ticks = t,
            !.data = IF t = 3 /\ b.flags = NACT THEN 65535 ELSE b.data]

---------------------------------------------------------------------------
(* RAM.ts and ROM *)

\* a device: data is the word array (index 0 .. length-1), writable is FALSE
\* for the ROM subclass, whose _readDataOnBusToAddr does nothing
DataLen(m) == Len(m.data)

\* seeded fault: the window test is dropped and the index wraps, so every
\* device is selected by every address
ReadAndDecodeAddr_Mirrored(m, b) ==
  [m EXCEPT !.addr = (b.data - m.start) % DataLen(m)]

\* seeded fault: a device keeps its selection when the address lies outside
\* its window
ReadAndDecodeAddr_KeepsSelection(m, b) ==
  LET addr == b.data - m.start IN
  [m EXCEPT !.addr = IF addr >= 0 /\ addr < DataLen(m) THEN addr ELSE m.addr]

\* RAM._readAndDecodeAddr
ReadAndDecodeAddr(m, b) ==
  LET addr == b.data - m.start IN
  [m EXCEPT !.addr = IF addr >= 0 /\ addr < DataLen(m) THEN addr ELSE null]

\* RAM._assertDataAtAddrToBus: the result is the device, the bus and whether
\* the device wrote Bus.data
AssertDataAtAddrToBus(m, b) ==
  IF m.addr = null
    THEN [mem |-> m, bus |-> b, wrote |-> FALSE]
    ELSE [mem |-> [m EXCEPT !.addr = null],
          bus |-> SetData(b, m.data[m.addr + 1]),
          wrote |-> TRUE]

\* seeded fault: every device ignores writes, as the ROM does
ReadDataOnBusToAddr_ReadOnly(m, b) == m

\* seeded fault: the ROM does not override _readDataOnBusToAddr
ReadDataOnBusToAddr_NoOverride(m, b) ==
  IF m.addr = null
    THEN m
    ELSE [m EXCEPT !.data[m.addr + 1] = b.data]

\* RAM._readDataOnBusToAddr, and ROM's override
ReadDataOnBusToAddr(m, b) ==
  IF m.addr = null \/ ~m.writable
    THEN m
    ELSE [m EXCEPT !.data[m.addr + 1] = b.data]

\* seeded fault: the devices do not latch the bus word at tick 3 of ADAR
RamClockOp_NoAdarLatch(m, b) ==
  LET t == (m.ticks + 1) % 4
      m1 == [m EXCEPT !.ticks = t]
      idle == [mem |-> m1, bus |-> b, wrote |-> FALSE]
  IN  CASE b.flags = BAR ->
             IF t = 3 THEN [idle EXCEPT !.mem = ReadAndDecodeAddr(m1, b)] ELSE idle
        [] b.flags = DTB ->
             IF t = 1 THEN AssertDataAtAddrToBus(m1, b) ELSE idle
        [] b.flags = ADAR ->
             IF t = 1 THEN AssertDataAtAddrToBus(m1, b) ELSE idle
        [] b.flags = DW -> idle
        [] b.flags = DWS ->
             IF t = 3 THEN [idle EXCEPT !.mem = ReadDataOnBusToAddr(m1, b)] ELSE idle
        [] b.flags = IAB ->
             IF t = 1 THEN AssertDataAtAddrToBus(m1, b) ELSE idle
        [] b.flags = INTAK -> idle
        [] b.flags = NACT -> idle

\* seeded fault: the devices decode the address at tick 2 of BAR, the tick in
\* which the CPU asserts it
RamClockOp_EarlyLatch(m, b) ==
  LET t == (m.ticks + 1) % 4
      m1 == [m EXCEPT !.ticks = t]
      idle == [mem |-> m1, bus |-> b, wrote |-> FALSE]
  IN  CASE b.flags = BAR ->
             IF t = 2 THEN [idle EXCEPT !.mem = ReadAndDecodeAddr(m1, b)] ELSE idle
        [] b.flags = DTB ->
             IF t = 1 THEN AssertDataAtAddrToBus(m1, b) ELSE idle
        [] b.flags = ADAR ->
             IF t = 1 THEN AssertDataAtAddrToBus(m1, b)
             ELSE IF t = 3 THEN [idle EXCEPT !.mem = ReadAndDecodeAddr(m1, b)]
             ELSE idle
        [] b.flags = DW -> idle
        [] b.flags = DWS ->
             IF t = 3 THEN [idle EXCEPT !.mem = ReadDataOnBusToAddr(m1, b)] ELSE idle
        [] b.flags = IAB ->
             IF t = 1 THEN AssertDataAtAddrToBus(m1, b) ELSE idle
        [] b.flags = INTAK -> idle
        [] b.flags = NACT -> idle

\* RAM.clock()
RamClockOp(m, b) ==
  LET t == (m.ticks + 1) % 4
      m1 == [m EXCEPT !.ticks = t]
      idle == [mem |-> m1, bus |-> b, wrote |-> FALSE]
  IN  CASE b.flags = BAR ->
             IF t = 3 THEN [idle EXCEPT !.mem = ReadAndDecodeAddr(m1, b)] ELSE idle
        [] b.flags = DTB ->
             IF t = 1 THEN AssertDataAtAddrToBus(m1, b) ELSE idle
        [] b.flags = ADAR ->
             IF t = 1 THEN AssertDataAtAddrToBus(m1, b)
             ELSE IF t = 3 THEN [idle EXCEPT !.mem = ReadAndDecodeAddr(m1, b)]
             ELSE idle
        [] b.flags = DW -> idle
        [] b.flags = DWS ->
             IF t = 3 THEN [idle EXCEPT !.mem = ReadDataOnBusToAddr(m1, b)] ELSE idle
        [] b.flags = IAB ->
             IF t = 1 THEN AssertDataAtAddrToBus(m1, b) ELSE idle
        [] b.flags = INTAK -> idle
        [] b.flags = NACT -> idle

---------------------------------------------------------------------------
(* cp1610.ts: constants and bus sequences *)

\* base external operations
B == 0
MVO == 1
MVI == 2
ADD == 3
SUB == 4
CMP == 5
AND == 6
XOR == 7

HLT_OPCODE == 0
SDBD_OPCODE == 1
RESET_VECTOR == 4096

\* seeded fault: INITIALIZATION goes straight from IAB to the first fetch
BusSequences_ShortReset ==
  [INITIALIZATION |-> <<NACT, IAB>>,
   INSTRUCTION_FETCH |-> <<BAR, NACT, DTB, NACT>>,
   ADDRESS_INDIRECT_READ |-> <<BAR, NACT, DTB, NACT>>,
   ADDRESS_INDIRECT_READ_SDBD |-> <<BAR, NACT, DTB, BAR, NACT, DTB>>,
   ADDRESS_INDIRECT_WRITE |-> <<BAR, NACT, DW, DWS, NACT>>,
   ADDRESS_DIRECT_READ |-> <<BAR, NACT, ADAR, NACT, DTB, NACT>>,
   ADDRESS_DIRECT_WRITE |-> <<BAR, NACT, ADAR, NACT, DW, DWS, NACT>>,
   JUMP |-> <<BAR, NACT, DTB, NACT, BAR, NACT, DTB, NACT, NACT>>,
   BRANCH_SKIP |-> <<NACT, NACT, NACT>>,
   BRANCH_JUMP |-> <<BAR, NACT, DTB, NACT, NACT>>,
   EXEC_NACT_2 |-> <<NACT, NACT>>,
   EXEC_NACT_4 |-> <<NACT, NACT, NACT, NACT>>]

BusSequences ==
  [INITIALIZATION |-> <<NACT, IAB, NACT, NACT, NACT>>,
   INSTRUCTION_FETCH |-> <<BAR, NACT, DTB, NACT>>,
   ADDRESS_INDIRECT_READ |-> <<BAR, NACT, DTB, NACT>>,
   ADDRESS_INDIRECT_READ_SDBD |-> <<BAR, NACT, DTB, BAR, NACT, DTB>>,
   ADDRESS_INDIRECT_WRITE |-> <<BAR, NACT, DW, DWS, NACT>>,
   ADDRESS_DIRECT_READ |-> <<BAR, NACT, ADAR, NACT, DTB, NACT>>,
   ADDRESS_DIRECT_WRITE |-> <<BAR, NACT, ADAR, NACT, DW, DWS, NACT>>,
   JUMP |-> <<BAR, NACT, DTB, NACT, BAR, NACT, DTB, NACT, NACT>>,
   BRANCH_SKIP |-> <<NACT, NACT, NACT>>,
   BRANCH_JUMP |-> <<BAR, NACT, DTB, NACT, NACT>>,
   EXEC_NACT_2 |-> <<NACT, NACT>>,
   EXEC_NACT_4 |-> <<NACT, NACT, NACT, NACT>>]

\* seeded fault: the zero flag is not written after a register write
SetSZ_SignOnly(c, i, signBitNo) ==
  [c EXCEPT !.s = (Bit(c.r[i], signBitNo) = 1)]

\* seeded fault: the sign flag is always taken from bit 15
SetSZ_Bit15(c, i, signBitNo) ==
  [c EXCEPT !.s = (Bit(c.r[i], 15) = 1), !.z = (c.r[i] = 0)]

\* the s and z assignments that follow most register writes
\* (this.s = (r[i] & signBit) !== 0; this.z = r[i] === 0); signBit by its bit number
SetSZ(c, i, signBitNo) ==
  [c EXCEPT !.s = (Bit(c.r[i], signBitNo) = 1), !.z = (c.r[i] = 0)]

---------------------------------------------------------------------------
(* cp1610.ts: EXECUTE INSTRUCTION, run when an address, jump, branch or   *)
(* execute-pad sequence completes                                         *)

\* seeded fault: a taken backward branch adds 1 to the difference instead of
\* subtracting it
ExecuteExternal_BackwardPlusOne(c) ==
  CASE c.operation = B ->
         IF c.busSequence = "BRANCH_JUMP"
           THEN LET direction == IF Bit(c.opcode, 5) = 1 THEN -1 ELSE 1 IN
                [c EXCEPT !.r[7] = W16(c.r[7] + direction * c.dtbData
                                       + (IF direction > 0 THEN 0 ELSE 1))]
           ELSE [c EXCEPT !.r[7] = W16(c.r[7] + 1)]
    [] c.operation = MVO -> c
    [] c.operation = MVI -> [c EXCEPT !.r[c.f2] = W16(c.dtbData)]
    [] c.operation = ADD -> c
    [] c.operation = SUB -> c
    [] c.operation = CMP -> c
    [] c.operation = AND ->
         SetSZ([c EXCEPT !.r[c.f2] = And16(c.r[c.f2], W16(c.dtbData))], c.f2, 15)
    [] c.operation = XOR ->
         SetSZ([c EXCEPT !.r[c.f2] = Xor16(c.r[c.f2], W16(c.dtbData))], c.f2, 15)

\* seeded fault: a taken branch ignores the direction bit of the opcode
ExecuteExternal_ForwardOnly(c) ==
  CASE c.operation = B ->
         IF c.busSequence = "BRANCH_JUMP"
           THEN [c EXCEPT !.r[7] = W16(c.r[7] + c.dtbData)]
           ELSE [c EXCEPT !.r[7] = W16(c.r[7] + 1)]
    [] c.operation = MVO -> c
    [] c.operation = MVI -> [c EXCEPT !.r[c.f2] = W16(c.dtbData)]
    [] c.operation = ADD -> c
    [] c.operation = SUB -> c
    [] c.operation = CMP -> c
    [] c.operation = AND ->
         SetSZ([c EXCEPT !.r[c.f2] = And16(c.r[c.f2], W16(c.dtbData))], c.f2, 15)
    [] c.operation = XOR ->
         SetSZ([c EXCEPT !.r[c.f2] = Xor16(c.r[c.f2], W16(c.dtbData))], c.f2, 15)

\* external instructions, switch (this.#operation)
ExecuteExternal(c) ==
  CASE c.operation = B ->
         IF c.busSequence = "BRANCH_JUMP"
           THEN LET direction == IF Bit(c.opcode, 5) = 1 THEN -1 ELSE 1 IN
                [c EXCEPT !.r[7] = W16(c.r[7] + direction
                                       * (c.dtbData + (IF direction > 0 THEN 0 ELSE 1)))]
           ELSE [c EXCEPT !.r[7] = W16(c.r[7] + 1)]
    [] c.operation = MVO -> c
    [] c.operation = MVI -> [c EXCEPT !.r[c.f2] = W16(c.dtbData)]
    [] c.operation = ADD -> c
    [] c.operation = SUB -> c
    [] c.operation = CMP -> c
    [] c.operation = AND ->
         SetSZ([c EXCEPT !.r[c.f2] = And16(c.r[c.f2], W16(c.dtbData))], c.f2, 15)
    [] c.operation = XOR ->
         SetSZ([c EXCEPT !.r[c.f2] = Xor16(c.r[c.f2], W16(c.dtbData))], c.f2, 15)

\* seeded fault: the jump target keeps only the ten low bits of the second
\* operand word
ExecuteJump_LowBits(c) ==
  LET op1 == c.jumpOperand1
      op2 == c.jumpOperand2
      rr == (op1 \div 256) % 4
      ff == op1 % 4
      target == op2 % 1024
      regIndex == CASE rr = 0 -> 4 [] rr = 1 -> 5 [] rr = 2 -> 6 [] OTHER -> null
      c1 == IF regIndex # null THEN [c EXCEPT !.r[regIndex] = c.r[7]] ELSE c
      c2 == IF ff = 1 THEN [c1 EXCEPT !.i = TRUE]
            ELSE IF ff = 2 THEN [c1 EXCEPT !.i = FALSE] ELSE c1
  IN  [c2 EXCEPT !.r[7] = target]

\* seeded fault: the jump writes no link register
ExecuteJump_NoLink(c) ==
  LET op1 == c.jumpOperand1
      op2 == c.jumpOperand2
      ff == op1 % 4
      target == ((op1 \div 4) % 64) * 1024 + (op2 % 1024)
      c2 == IF ff = 1 THEN [c EXCEPT !.i = TRUE]
            ELSE IF ff = 2 THEN [c EXCEPT !.i = FALSE] ELSE c
  IN  [c2 EXCEPT !.r[7] = target]

\* the J family: case 0b100 of the internal control operations
ExecuteJump(c) ==
  LET op1 == c.jumpOperand1
      op2 == c.jumpOperand2
      rr == (op1 \div 256) % 4
      ff == op1 % 4
      target == ((op1 \div 4) % 64) * 1024 + (op2 % 1024)
      regIndex == CASE rr = 0 -> 4 [] rr = 1 -> 5 [] rr = 2 -> 6 [] OTHER -> null
      c1 == IF regIndex # null THEN [c EXCEPT !.r[regIndex] = c.r[7]] ELSE c
      c2 == IF ff = 1 THEN [c1 EXCEPT !.i = TRUE]
            ELSE IF ff = 2 THEN [c1 EXCEPT !.i = FALSE] ELSE c1
  IN  [c2 EXCEPT !.r[7] = target]

\* seeded fault: GSWD packs the flags in the order C, O, Z, S
ExecuteSingleRegister_GswdReversed(c) ==
  LET i == c.f2
      ri == c.r[i]
  IN  CASE c.f1 = 0 -> IF c.f2 = 4 THEN ExecuteJump(c) ELSE c
        [] c.f1 = 1 -> SetSZ([c EXCEPT !.r[i] = W16(ri + 1)], i, 15)
        [] c.f1 = 2 -> SetSZ([c EXCEPT !.r[i] = W16(ri - 1)], i, 15)
        [] c.f1 = 3 -> SetSZ([c EXCEPT !.r[i] = Xor16(ri, 65535)], i, 15)
        [] c.f1 = 4 ->
             SetSZ([c EXCEPT !.c = (ri = 0), !.o = (ri = 32768),
                             !.r[i] = W16(0 - ri)], i, 15)
        [] c.f1 = 5 ->
             IF c.c
               THEN SetSZ([c EXCEPT !.o = (ri = 32767), !.c = (ri = 65535),
                                    !.r[i] = W16(ri + 1)], i, 15)
               ELSE SetSZ(c, i, 15)
        [] c.f1 = 6 ->
             IF c.f2 <= 3
               THEN LET flags == (IF c.c THEN 8 ELSE 0) + (IF c.o THEN 4 ELSE 0)
                                 + (IF c.z THEN 2 ELSE 0) + (IF c.s THEN 1 ELSE 0)
                    IN  [c EXCEPT !.r[i] = W16(flags * 16 + flags * 4096)]
               ELSE c
        [] c.f1 = 7 ->
             LET flags == (ri \div 16) % 16 IN
             [c EXCEPT !.s = (Bit(flags, 3) = 1), !.z = (Bit(flags, 2) = 1),
                       !.o = (Bit(flags, 1) = 1), !.c = (Bit(flags, 0) = 1)]

\* seeded fault: NEGR sets O for every negative operand
ExecuteSingleRegister_NegrOverflow(c) ==
  LET i == c.f2
      ri == c.r[i]
  IN  CASE c.f1 = 0 -> IF c.f2 = 4 THEN ExecuteJump(c) ELSE c
        [] c.f1 = 1 -> SetSZ([c EXCEPT !.r[i] = W16(ri + 1)], i, 15)
        [] c.f1 = 2 -> SetSZ([c EXCEPT !.r[i] = W16(ri - 1)], i, 15)
        [] c.f1 = 3 -> SetSZ([c EXCEPT !.r[i] = Xor16(ri, 65535)], i, 15)
        [] c.f1 = 4 ->
             SetSZ([c EXCEPT !.c = (ri = 0), !.o = Sign16(ri),
                             !.r[i] = W16(0 - ri)], i, 15)
        [] c.f1 = 5 ->
             IF c.c
               THEN SetSZ([c EXCEPT !.o = (ri = 32767), !.c = (ri = 65535),
                                    !.r[i] = W16(ri + 1)], i, 15)
               ELSE SetSZ(c, i, 15)
        [] c.f1 = 6 ->
             IF c.f2 <= 3
               THEN LET flags == (IF c.s THEN 8 ELSE 0) + (IF c.z THEN 4 ELSE 0)
                                 + (IF c.o THEN 2 ELSE 0) + (IF c.c THEN 1 ELSE 0)
                    IN  [c EXCEPT !.r[i] = W16(flags * 16 + flags * 4096)]
               ELSE c
        [] c.f1 = 7 ->
             LET flags == (ri \div 16) % 16 IN
             [c EXCEPT !.s = (Bit(flags, 3) = 1), !.z = (Bit(flags, 2) = 1),
                       !.o = (Bit(flags, 1) = 1), !.c = (Bit(flags, 0) = 1)]

\* single-register operations: internal, operation 0b000, switch (this.#f1)
ExecuteSingleRegister(c) ==
  LET i == c.f2
      ri == c.r[i]
  IN  CASE c.f1 = 0 -> IF c.f2 = 4 THEN ExecuteJump(c) ELSE c
        [] c.f1 = 1 -> SetSZ([c EXCEPT !.r[i] = W16(ri + 1)], i, 15)
        [] c.f1 = 2 -> SetSZ([c EXCEPT !.r[i] = W16(ri - 1)], i, 15)
        [] c.f1 = 3 -> SetSZ([c EXCEPT !.r[i] = Xor16(ri, 65535)], i, 15)
        [] c.f1 = 4 ->
             SetSZ([c EXCEPT !.c = (ri = 0), !.o = (ri = 32768),
                             !.r[i] = W16(0 - ri)], i, 15)
        [] c.f1 = 5 ->
             IF c.c
               THEN SetSZ([c EXCEPT !.o = (ri = 32767), !.c = (ri = 65535),
                                    !.r[i] = W16(ri + 1)], i, 15)
               ELSE SetSZ(c, i, 15)
        [] c.f1 = 6 ->
             IF c.f2 <= 3
               THEN LET flags == (IF c.s THEN 8 ELSE 0) + (IF c.z THEN 4 ELSE 0)
                                 + (IF c.o THEN 2 ELSE 0) + (IF c.c THEN 1 ELSE 0)
                    IN  [c EXCEPT !.r[i] = W16(flags * 16 + flags * 4096)]
               ELSE c
        [] c.f1 = 7 ->
             LET flags == (ri \div 16) % 16 IN
             [c EXCEPT !.s = (Bit(flags, 3) = 1), !.z = (Bit(flags, 2) = 1),
                       !.o = (Bit(flags, 1) = 1), !.c = (Bit(flags, 0) = 1)]

\* seeded fault: the rotates do not shift the old carry into the result
ExecuteShift_DropsCarry(c) ==
  LET i == c.f2 % 4
      r == c.r[i]
      rightShift == Bit(c.f1, 2) = 1
      withLinkBits == Bit(c.f1, 1) = 1
      arithmetic == Bit(c.f1, 0) = 1
      shiftTwice == Bit(c.f2, 2) = 1
      shift == IF shiftTwice THEN 2 ELSE 1
      lo == r % 256
      hi == (r \div 256) * 256
      cIn == 0
      oIn == IF c.o /\ ~arithmetic THEN 1 ELSE 0
      \* c << (shift - 1) and o << (shift - 2): a shift count of -1 is 31 in
      \* JavaScript, which leaves nothing in the low 16 bits
      left == Or16(Or16(W16(r * Pow2(shift)), cIn * Pow2(shift - 1)),
                   IF shift = 2 THEN oIn ELSE 0)
      signBits == IF Sign16(r) THEN (IF shiftTwice THEN 32768 + 16384 ELSE 32768) ELSE 0
      \* c << (16 - shift) and o << (17 - shift), kept to 16 bits
      rightLinked == Or16(Or16(r \div Pow2(shift), W16(cIn * Pow2(16 - shift))),
                          W16(oIn * Pow2(17 - shift)))
      newC == IF withLinkBits
                THEN (IF rightShift THEN Bit(r, 0) = 1 ELSE Bit(r, 15) = 1)
                ELSE c.c
      newO == IF withLinkBits /\ shiftTwice
                THEN (IF rightShift THEN Bit(r, 1) = 1 ELSE Bit(r, 14) = 1)
                ELSE c.o
  IN  IF c.f1 = 0
        THEN \* SWAP
             SetSZ([c EXCEPT !.r[i] = IF shiftTwice THEN lo + lo * 256
                                      ELSE (hi \div 256) + lo * 256], i, 7)
        ELSE SetSZ([c EXCEPT !.c = newC, !.o = newO,
                             !.r[i] = IF ~rightShift THEN left
                                      ELSE IF arithmetic
                                        THEN Or16(signBits, r \div Pow2(shift))
                                      ELSE IF withLinkBits THEN rightLinked
                                      ELSE r \div Pow2(shift)],
                   i, IF rightShift THEN 7 ELSE 15)

\* seeded fault: SLL and SLLC shift the old link bits into the result
ExecuteShift_LinksAlways(c) ==
  LET i == c.f2 % 4
      r == c.r[i]
      rightShift == Bit(c.f1, 2) = 1
      withLinkBits == Bit(c.f1, 1) = 1
      arithmetic == Bit(c.f1, 0) = 1
      shiftTwice == Bit(c.f2, 2) = 1
      shift == IF shiftTwice THEN 2 ELSE 1
      lo == r % 256
      hi == (r \div 256) * 256
      cIn == IF c.c THEN 1 ELSE 0
      oIn == IF c.o THEN 1 ELSE 0
      \* c << (shift - 1) and o << (shift - 2): a shift count of -1 is 31 in
      \* JavaScript, which leaves nothing in the low 16 bits
      left == Or16(Or16(W16(r * Pow2(shift)), cIn * Pow2(shift - 1)),
                   IF shift = 2 THEN oIn ELSE 0)
      signBits == IF Sign16(r) THEN (IF shiftTwice THEN 32768 + 16384 ELSE 32768) ELSE 0
      \* c << (16 - shift) and o << (17 - shift), kept to 16 bits
      rightLinked == Or16(Or16(r \div Pow2(shift), W16(cIn * Pow2(16 - shift))),
                          W16(oIn * Pow2(17 - shift)))
      newC == IF withLinkBits
                THEN (IF rightShift THEN Bit(r, 0) = 1 ELSE Bit(r, 15) = 1)
                ELSE c.c
      newO == IF withLinkBits /\ shiftTwice
                THEN (IF rightShift THEN Bit(r, 1) = 1 ELSE Bit(r, 14) = 1)
                ELSE c.o
  IN  IF c.f1 = 0
        THEN \* SWAP
             SetSZ([c EXCEPT !.r[i] = IF shiftTwice THEN lo + lo * 256
                                      ELSE (hi \div 256) + lo * 256], i, 7)
        ELSE SetSZ([c EXCEPT !.c = newC, !.o = newO,
                             !.r[i] = IF ~rightShift THEN left
                                      ELSE IF arithmetic
                                        THEN Or16(signBits, r \div Pow2(shift))
                                      ELSE IF withLinkBits THEN rightLinked
                                      ELSE r \div Pow2(shift)],
                   i, IF rightShift THEN 7 ELSE 15)

\* register shift operations: internal, operation 0b001
ExecuteShift(c) ==
  LET i == c.f2 % 4
      r == c.r[i]
      rightShift == Bit(c.f1, 2) = 1
      withLinkBits == Bit(c.f1, 1) = 1
      arithmetic == Bit(c.f1, 0) = 1
      shiftTwice == Bit(c.f2, 2) = 1
      shift == IF shiftTwice THEN 2 ELSE 1
      lo == r % 256
      hi == (r \div 256) * 256
      cIn == IF c.c /\ ~arithmetic THEN 1 ELSE 0
      oIn == IF c.o /\ ~arithmetic THEN 1 ELSE 0
      \* c << (shift - 1) and o << (shift - 2): a shift count of -1 is 31 in
      \* JavaScript, which leaves nothing in the low 16 bits
      left == Or16(Or16(W16(r * Pow2(shift)), cIn * Pow2(shift - 1)),
                   IF shift = 2 THEN oIn ELSE 0)
      signBits == IF Sign16(r) THEN (IF shiftTwice THEN 32768 + 16384 ELSE 32768) ELSE 0
      \* c << (16 - shift) and o << (17 - shift), kept to 16 bits
      rightLinked == Or16(Or16(r \div Pow2(shift), W16(cIn * Pow2(16 - shift))),
                          W16(oIn * Pow2(17 - shift)))
      newC == IF withLinkBits
                THEN (IF rightShift THEN Bit(r, 0) = 1 ELSE Bit(r, 15) = 1)
                ELSE c.c
      newO == IF withLinkBits /\ shiftTwice
                THEN (IF rightShift THEN Bit(r, 1) = 1 ELSE Bit(r, 14) = 1)
                ELSE c.o
  IN  IF c.f1 = 0
        THEN \* SWAP
             SetSZ([c EXCEPT !.r[i] = IF shiftTwice THEN lo + lo * 256
                                      ELSE (hi \div 256) + lo * 256], i, 7)
        ELSE SetSZ([c EXCEPT !.c = newC, !.o = newO,
                             !.r[i] = IF ~rightShift THEN left
                                      ELSE IF arithmetic
                                        THEN Or16(signBits, r \div Pow2(shift))
                                      ELSE IF withLinkBits THEN rightLinked
                                      ELSE r \div Pow2(shift)],
                   i, IF rightShift THEN 7 ELSE 15)

\* seeded fault: the carry of SUBR and CMPR is set only when b > a
ExecuteRegisterRegister_StrictCarry(c) ==
  LET r1 == c.r[c.f1]
      r2 == c.r[c.f2]
      i == c.f2
  IN  CASE c.operation = 2 -> SetSZ([c EXCEPT !.r[i] = r1], i, 15)
        [] c.operation = 3 ->
             LET result == r1 + r2
                 s1 == Sign16(W16(result))
             IN  [c EXCEPT !.r[i] = W16(result),
                           !.c = (result > 65535),
                           !.s = s1,
                           !.o = (Sign16(r1) = Sign16(r2)) /\ (s1 # Sign16(r1)),
                           !.z = (W16(result) = 0)]
        [] c.operation \in {4, 5} ->
             LET result == r2 - r1
                 s1 == Sign16(W16(result))
             IN  [c EXCEPT !.c = (r2 > r1),
                           !.s = s1,
                           !.z = (result = 0),
                           !.o = (Sign16(r1) # Sign16(r2)) /\ (s1 = Sign16(r1)),
                           !.r[i] = IF c.operation = 4 THEN W16(result) ELSE r2]
        [] c.operation = 6 -> SetSZ([c EXCEPT !.r[i] = And16(r2, r1)], i, 15)
        [] c.operation = 7 -> SetSZ([c EXCEPT !.r[i] = Xor16(r2, r1)], i, 15)

\* register to register operations: internal, operation 0b010 .. 0b111
ExecuteRegisterRegister(c) ==
  LET r1 == c.r[c.f1]
      r2 == c.r[c.f2]
      i == c.f2
  IN  CASE c.operation = 2 -> SetSZ([c EXCEPT !.r[i] = r1], i, 15)
        [] c.operation = 3 ->
             LET result == r1 + r2
                 s1 == Sign16(W16(result))
             IN  [c EXCEPT !.r[i] = W16(result),
                           !.c = (result > 65535),
                           !.s = s1,
                           !.o = (Sign16(r1) = Sign16(r2)) /\ (s1 # Sign16(r1)),
                           !.z = (W16(result) = 0)]
        [] c.operation \in {4, 5} ->
             LET result == r2 - r1
                 s1 == Sign16(W16(result))
             IN  [c EXCEPT !.c = (r2 >= r1),
                           !.s = s1,
                           !.z = (result = 0),
                           !.o = (Sign16(r1) # Sign16(r2)) /\ (s1 = Sign16(r1)),
                           !.r[i] = IF c.operation = 4 THEN W16(result) ELSE r2]
        [] c.operation = 6 -> SetSZ([c EXCEPT !.r[i] = And16(r2, r1)], i, 15)
        [] c.operation = 7 -> SetSZ([c EXCEPT !.r[i] = Xor16(r2, r1)], i, 15)

\* the operation of the instruction: if (this.#external) ... else switch (this.#operation)
ExecuteOperation(c) ==
  IF c.external THEN ExecuteExternal(c)
  ELSE IF c.operation = 0 THEN ExecuteSingleRegister(c)
  ELSE IF c.operation = 1 THEN ExecuteShift(c)
  ELSE ExecuteRegisterRegister(c)

\* seeded fault: the sequence is not set back to INSTRUCTION_FETCH after the
\* instruction has executed
Execute_NoReturn(c) ==
  [ExecuteOperation(c) EXCEPT !.jumpOperand1 = null, !.jumpOperand2 = null]

\* the whole EXECUTE INSTRUCTION block, ending in the return to INSTRUCTION_FETCH
Execute(c) ==
  [ExecuteOperation(c) EXCEPT !.busSequence = "INSTRUCTION_FETCH",
                              !.jumpOperand1 = null,
                              !.jumpOperand2 = null]

---------------------------------------------------------------------------
(* cp1610.ts: the decode that follows INSTRUCTION_FETCH *)

\* seeded fault: the invert bit of a branch opcode is ignored
BranchCondition_NoInvert(c) ==
  CASE c.f2 = 0 -> TRUE
    [] c.f2 = 1 -> c.c
    [] c.f2 = 2 -> c.o
    [] c.f2 = 3 -> ~c.s
    [] c.f2 = 4 -> c.z
    [] c.f2 = 5 -> c.s # c.o
    [] c.f2 = 6 -> c.z \/ (c.s # c.o)
    [] c.f2 = 7 -> c.s # c.c

\* the condition of a branch: switch (this.#f2), then the invert bit
BranchCondition(c) ==
  LET condition == CASE c.f2 = 0 -> TRUE
                     [] c.f2 = 1 -> c.c
                     [] c.f2 = 2 -> c.o
                     [] c.f2 = 3 -> ~c.s
                     [] c.f2 = 4 -> c.z
                     [] c.f2 = 5 -> c.s # c.o
                     [] c.f2 = 6 -> c.z \/ (c.s # c.o)
                     [] c.f2 = 7 -> c.s # c.c
  IN  IF Bit(c.opcode, 3) = 1 THEN ~condition ELSE condition

\* seeded fault: the post-increment of R4, R5 and R7 is 1 whatever D is
EffectiveAddress_IgnoresD(c) ==
  LET offset == IF c.d THEN 2 ELSE 1
      rf == c.r[c.f1]
  IN  CASE c.f1 \in {1, 2, 3} -> [c EXCEPT !.effectiveAddress = rf]
        [] c.f1 \in {4, 5, 7} ->
             [c EXCEPT !.effectiveAddress = rf, !.r[c.f1] = W16(rf + 1)]
        [] c.f1 = 6 ->
             LET pre == IF c.operation = MVI THEN W16(rf - offset) ELSE rf
                 post == IF c.operation = MVO THEN W16(pre + offset) ELSE pre
             IN  [c EXCEPT !.effectiveAddress = pre, !.r[c.f1] = post]
        [] c.f1 = 0 -> c

\* effective address calculation and pre/post incrementation of registers
EffectiveAddress(c) ==
  LET offset == IF c.d THEN 2 ELSE 1
      rf == c.r[c.f1]
  IN  CASE c.f1 \in {1, 2, 3} -> [c EXCEPT !.effectiveAddress = rf]
        [] c.f1 \in {4, 5, 7} ->
             [c EXCEPT !.effectiveAddress = rf, !.r[c.f1] = W16(rf + offset)]
        [] c.f1 = 6 ->
             LET pre == IF c.operation = MVI THEN W16(rf - offset) ELSE rf
                 post == IF c.operation = MVO THEN W16(pre + offset) ELSE pre
             IN  [c EXCEPT !.effectiveAddress = pre, !.r[c.f1] = post]
        [] c.f1 = 0 -> c

\* seeded fault: F1 = 0 selects the indirect templates as the other modes do
DecodeExternal_DirectIsInline(c) ==
  LET indirect == TRUE
      seq == CASE c.operation = B ->
                    IF BranchCondition(c) THEN "BRANCH_JUMP" ELSE "BRANCH_SKIP"
               [] c.operation = MVO ->
                    IF indirect THEN "ADDRESS_INDIRECT_WRITE" ELSE "ADDRESS_DIRECT_WRITE"
               [] OTHER ->
                    IF indirect THEN "ADDRESS_INDIRECT_READ" ELSE "ADDRESS_DIRECT_READ"
      c1 == [c EXCEPT !.busSequence = seq]
      c2 == IF c.operation # B THEN EffectiveAddress(c1) ELSE c1
  IN  IF c2.d /\ c2.busSequence = "ADDRESS_INDIRECT_READ"
        THEN [c2 EXCEPT !.busSequence = "ADDRESS_INDIRECT_READ_SDBD"]
        ELSE c2

\* external instructions: the bus sequence, then the effective address
DecodeExternal(c) ==
  LET indirect == c.f1 # 0
      seq == CASE c.operation = B ->
                    IF BranchCondition(c) THEN "BRANCH_JUMP" ELSE "BRANCH_SKIP"
               [] c.operation = MVO ->
                    IF indirect THEN "ADDRESS_INDIRECT_WRITE" ELSE "ADDRESS_DIRECT_WRITE"
               [] OTHER ->
                    IF indirect THEN "ADDRESS_INDIRECT_READ" ELSE "ADDRESS_DIRECT_READ"
      c1 == [c EXCEPT !.busSequence = seq]
      c2 == IF c.operation # B THEN EffectiveAddress(c1) ELSE c1
  IN  IF c2.d /\ c2.busSequence = "ADDRESS_INDIRECT_READ"
        THEN [c2 EXCEPT !.busSequence = "ADDRESS_INDIRECT_READ_SDBD"]
        ELSE c2

\* seeded fault: every register-to-register operation gets the long pad
RegisterRegisterPad_Four(c) == "EXEC_NACT_4"

\* the execute pad of the register-to-register operations (operation 0b010 .. 0b111)
RegisterRegisterPad(c) == "EXEC_NACT_2"

\* seeded fault: TCI halts the CPU as HLT does
DecodeInternal_TciHalts(c) ==
  CASE c.operation = 0 ->
         IF c.f1 = 0
           THEN CASE c.f2 = 4 -> [c EXCEPT !.busSequence = "JUMP"]
                  [] c.f2 = 0 -> [c EXCEPT !.halted = TRUE]
                  [] c.f2 = 1 -> c
                  [] c.f2 = 2 -> [c EXCEPT !.i = TRUE]
                  [] c.f2 = 3 -> [c EXCEPT !.i = FALSE]
                  [] c.f2 = 5 -> [c EXCEPT !.halted = TRUE]
                  [] c.f2 = 6 -> [c EXCEPT !.c = FALSE]
                  [] c.f2 = 7 -> [c EXCEPT !.c = TRUE]
           ELSE [c EXCEPT !.busSequence = "EXEC_NACT_2"]
    [] c.operation = 1 ->
         [c EXCEPT !.busSequence = IF Bit(c.f2, 2) = 1 THEN "EXEC_NACT_4"
                                   ELSE "EXEC_NACT_2"]
    [] OTHER -> [c EXCEPT !.busSequence = RegisterRegisterPad(c)]

\* internal instructions
DecodeInternal(c) ==
  CASE c.operation = 0 ->
         IF c.f1 = 0
           THEN CASE c.f2 = 4 -> [c EXCEPT !.busSequence = "JUMP"]
                  [] c.f2 = 0 -> [c EXCEPT !.halted = TRUE]
                  [] c.f2 = 1 -> c
                  [] c.f2 = 2 -> [c EXCEPT !.i = TRUE]
                  [] c.f2 = 3 -> [c EXCEPT !.i = FALSE]
                  [] c.f2 = 5 -> c
                  [] c.f2 = 6 -> [c EXCEPT !.c = FALSE]
                  [] c.f2 = 7 -> [c EXCEPT !.c = TRUE]
           ELSE [c EXCEPT !.busSequence = "EXEC_NACT_2"]
    [] c.operation = 1 ->
         [c EXCEPT !.busSequence = IF Bit(c.f2, 2) = 1 THEN "EXEC_NACT_4"
                                   ELSE "EXEC_NACT_2"]
    [] OTHER -> [c EXCEPT !.busSequence = RegisterRegisterPad(c)]

\* seeded fault: the decode of an instruction other than SDBD leaves D alone
Decode_KeepsD(c) ==
  IF c.opcode = SDBD_OPCODE
    THEN [c EXCEPT !.d = TRUE]
    ELSE LET c0 == [c EXCEPT !.external = (Bit(c.opcode, 9) = 1),
                             !.operation = (c.opcode \div 64) % 8,
                             !.f1 = (c.opcode \div 8) % 8,
                             !.f2 = c.opcode % 8]
         IN  IF c0.external THEN DecodeExternal(c0) ELSE DecodeInternal(c0)

\* case "INSTRUCTION_FETCH" of the sequence-completion switch
Decode(c) ==
  IF c.opcode = SDBD_OPCODE
    THEN [c EXCEPT !.d = TRUE]
    ELSE LET c0 == [c EXCEPT !.external = (Bit(c.opcode, 9) = 1),
                             !.operation = (c.opcode \div 64) % 8,
                             !.f1 = (c.opcode \div 8) % 8,
                             !.f2 = c.opcode % 8]
             c1 == IF c0.external THEN DecodeExternal(c0) ELSE DecodeInternal(c0)
         IN  [c1 EXCEPT !.d = FALSE]

---------------------------------------------------------------------------
(* cp1610.ts: CP1610.clock() *)

\* seeded fault: the BAR of INSTRUCTION_FETCH does not advance R7
BarAssert_NoIncrement(c) ==
  CASE c.busSequence = "INITIALIZATION" -> [addr |-> RESET_VECTOR, cpu |-> c]
    [] c.busSequence = "INSTRUCTION_FETCH" -> [addr |-> c.r[7], cpu |-> c]
    [] c.busSequence \in {"ADDRESS_DIRECT_READ", "ADDRESS_DIRECT_WRITE", "JUMP",
                          "BRANCH_JUMP"} ->
         [addr |-> c.r[7], cpu |-> [c EXCEPT !.r[7] = W16(c.r[7] + 1)]]
    [] c.busSequence \in {"ADDRESS_INDIRECT_READ", "ADDRESS_INDIRECT_WRITE"} ->
         [addr |-> c.effectiveAddress, cpu |-> c]
    [] c.busSequence = "ADDRESS_INDIRECT_READ_SDBD" ->
         [addr |-> c.effectiveAddress,
          cpu |-> [c EXCEPT !.effectiveAddress = c.effectiveAddress + 1]]
    [] OTHER -> [addr |-> 43690, cpu |-> c]

\* the address the CPU asserts at slot 2 of BAR, and what asserting it does
\* to R7 or the effective address
BarAssert(c) ==
  CASE c.busSequence = "INITIALIZATION" -> [addr |-> RESET_VECTOR, cpu |-> c]
    [] c.busSequence \in {"ADDRESS_DIRECT_READ", "ADDRESS_DIRECT_WRITE", "JUMP",
                          "BRANCH_JUMP", "INSTRUCTION_FETCH"} ->
         [addr |-> c.r[7], cpu |-> [c EXCEPT !.r[7] = W16(c.r[7] + 1)]]
    [] c.busSequence \in {"ADDRESS_INDIRECT_READ", "ADDRESS_INDIRECT_WRITE"} ->
         [addr |-> c.effectiveAddress, cpu |-> c]
    [] c.busSequence = "ADDRESS_INDIRECT_READ_SDBD" ->
         [addr |-> c.effectiveAddress,
          cpu |-> [c EXCEPT !.effectiveAddress = c.effectiveAddress + 1]]
    [] OTHER -> [addr |-> 43690, cpu |-> c]

\* seeded fault: every operand read keeps only the low byte, as the first
\* read of an SDBD pair does
DtbSample_LowByte(c, data) ==
  CASE c.busSequence = "INSTRUCTION_FETCH" -> [c EXCEPT !.opcode = data]
    [] c.busSequence = "JUMP" ->
         IF c.jumpOperand1 = null THEN [c EXCEPT !.jumpOperand1 = data]
         ELSE IF c.jumpOperand2 = null THEN [c EXCEPT !.jumpOperand2 = data]
         ELSE c
    [] c.busSequence = "ADDRESS_INDIRECT_READ_SDBD" ->
         IF c.busSequenceIndex = 2
           THEN [c EXCEPT !.dtbData = data % 256]
           ELSE [c EXCEPT !.dtbData = Or16(c.dtbData, (data % 256) * 256)]
    [] OTHER -> [c EXCEPT !.dtbData = data % 256]

\* seeded fault: the first read of an SDBD pair keeps the whole word
DtbSample_KeepsHighByte(c, data) ==
  CASE c.busSequence = "INSTRUCTION_FETCH" -> [c EXCEPT !.opcode = data]
    [] c.busSequence = "JUMP" ->
         IF c.jumpOperand1 = null THEN [c EXCEPT !.jumpOperand1 = data]
         ELSE IF c.jumpOperand2 = null THEN [c EXCEPT !.jumpOperand2 = data]
         ELSE c
    [] c.busSequence = "ADDRESS_INDIRECT_READ_SDBD" ->
         IF c.busSequenceIndex = 2
           THEN [c EXCEPT !.dtbData = data]
           ELSE [c EXCEPT !.dtbData = Or16(c.dtbData, (data % 256) * 256)]
    [] OTHER -> [c EXCEPT !.dtbData = data]

\* what the CPU keeps of the word it samples at slot 2 of DTB
DtbSample(c, data) ==
  CASE c.busSequence = "INSTRUCTION_FETCH" -> [c EXCEPT !.opcode = data]
    [] c.busSequence = "JUMP" ->
         IF c.jumpOperand1 = null THEN [c EXCEPT !.jumpOperand1 = data]
         ELSE IF c.jumpOperand2 = null THEN [c EXCEPT !.jumpOperand2 = data]
         ELSE c
    [] c.busSequence = "ADDRESS_INDIRECT_READ_SDBD" ->
         IF c.busSequenceIndex = 2
           THEN [c EXCEPT !.dtbData = data % 256]
           ELSE [c EXCEPT !.dtbData = Or16(c.dtbData, (data % 256) * 256)]
    [] OTHER -> [c EXCEPT !.dtbData = data]

\* seeded fault: in DWS the CPU drives R[F1] instead of R[F2]
BusControlStep_StrobeDrivesF1(c, b, busControl) ==
  LET quiet == [cpu |-> c, bus |-> b, wrote |-> FALSE, fetched |-> FALSE] IN
  CASE busControl = IAB ->
         IF c.ts = 1 THEN [quiet EXCEPT !.bus = SetData(b, RESET_VECTOR), !.wrote = TRUE]
         ELSE IF c.ts = 2 THEN [quiet EXCEPT !.cpu = [c EXCEPT !.r[7] = b.data]]
         ELSE quiet
    [] busControl = BAR ->
         IF c.ts = 2
           THEN [quiet EXCEPT !.cpu = BarAssert(c).cpu,
                              !.bus = SetData(b, BarAssert(c).addr),
                              !.wrote = TRUE]
           ELSE [quiet EXCEPT
                   !.fetched = (c.ts = 0 /\ c.busSequence = "INSTRUCTION_FETCH")]
    [] busControl = ADAR -> quiet
    [] busControl = DTB ->
         IF c.ts = 2 THEN [quiet EXCEPT !.cpu = DtbSample(c, b.data)] ELSE quiet
    [] busControl = DW ->
         [quiet EXCEPT !.bus = SetData(b, c.r[c.f2]), !.wrote = TRUE]
    [] busControl = DWS ->
         [quiet EXCEPT !.bus = SetData(b, c.r[c.f1]), !.wrote = TRUE]
    [] busControl = INTAK -> quiet
    [] busControl = NACT -> quiet

\* switch (busControl): the result is the CPU, the bus, whether the CPU wrote
\* Bus.data and whether onInstructionFetch fired
BusControlStep(c, b, busControl) ==
  LET quiet == [cpu |-> c, bus |-> b, wrote |-> FALSE, fetched |-> FALSE] IN
  CASE busControl = IAB ->
         IF c.ts = 1 THEN [quiet EXCEPT !.bus = SetData(b, RESET_VECTOR), !.wrote = TRUE]
         ELSE IF c.ts = 2 THEN [quiet EXCEPT !.cpu = [c EXCEPT !.r[7] = b.data]]
         ELSE quiet
    [] busControl = BAR ->
         IF c.ts = 2
           THEN [quiet EXCEPT !.cpu = BarAssert(c).cpu,
                              !.bus = SetData(b, BarAssert(c).addr),
                              !.wrote = TRUE]
           ELSE [quiet EXCEPT
                   !.fetched = (c.ts = 0 /\ c.busSequence = "INSTRUCTION_FETCH")]
    [] busControl = ADAR -> quiet
    [] busControl = DTB ->
         IF c.ts = 2 THEN [quiet EXCEPT !.cpu = DtbSample(c, b.data)] ELSE quiet
    [] busControl \in {DW, DWS} ->
         [quiet EXCEPT !.bus = SetData(b, c.r[c.f2]), !.wrote = TRUE]
    [] busControl = INTAK -> quiet
    [] busControl = NACT -> quiet

\* seeded fault: the end of a bus sequence is detected one step late
EndOfMicroCycle_Overrun(c) ==
  LET c1 == [c EXCEPT !.busSequenceIndex = c.busSequenceIndex + 1] IN
  IF c1.busSequenceIndex > Len(BusSequences[c.busSequence])
    THEN LET c2 == [c1 EXCEPT !.busSequenceIndex = 0] IN
         CASE c.busSequence = "INITIALIZATION" ->
                [c2 EXCEPT !.busSequence = "INSTRUCTION_FETCH"]
           [] c.busSequence = "INSTRUCTION_FETCH" -> Decode(c2)
           [] OTHER -> Execute(c2)
    ELSE c1

\* the end of a micro-cycle: the next step of the bus sequence, and the
\* decode or execute at the end of the sequence
EndOfMicroCycle(c) ==
  LET c1 == [c EXCEPT !.busSequenceIndex = c.busSequenceIndex + 1] IN
  IF c1.busSequenceIndex >= Len(BusSequences[c.busSequence])
    THEN LET c2 == [c1 EXCEPT !.busSequenceIndex = 0] IN
         CASE c.busSequence = "INITIALIZATION" ->
                [c2 EXCEPT !.busSequence = "INSTRUCTION_FETCH"]
           [] c.busSequence = "INSTRUCTION_FETCH" -> Decode(c2)
           [] OTHER -> Execute(c2)
    ELSE c1

\* CP1610.clock() of a CPU that is not halted; threw is TRUE when the call
\* throws UnreachableCaseError
CpuStep(c, b) ==
  LET ts == (c.ts + 1) % 4
      c1 == [c EXCEPT !.ts = ts]
      busSequence == BusSequences[c.busSequence]
      valid == c.busSequenceIndex + 1 \in DOMAIN busSequence
  IN  IF ~valid
        THEN [cpu |-> c1, bus |-> b, wrote |-> FALSE, fetched |-> FALSE,
              threw |-> TRUE]
        ELSE
          LET busControl == busSequence[c.busSequenceIndex + 1]
              b1 == IF ts = 0 THEN [b EXCEPT !.flags = busControl] ELSE b
              step == BusControlStep(c1, b1, busControl)
          IN  [cpu |-> IF ts = 3 THEN EndOfMicroCycle(step.cpu) ELSE step.cpu,
               bus |-> step.bus,
               wrote |-> step.wrote,
               fetched |-> step.fetched,
               threw |-> FALSE]

\* seeded fault: clock() does not return early when the CPU is halted
CpuClockOp_IgnoresHalt(c, b) == CpuStep(c, b)

\* CP1610.clock(): if (this.halted) return
CpuClockOp(c, b) ==
  IF c.halted
    THEN [cpu |-> c, bus |-> b, wrote |-> FALSE, fetched |-> FALSE, threw |-> FALSE]
    ELSE CpuStep(c, b)

---------------------------------------------------------------------------
(* The ROM images the machine is run on.  An instruction is the sequence  *)
(* of words the assembler emits for it (test-roms/instructions.asm).  A   *)
(* program is either one instruction, or MVII #$8001,R1 followed by two   *)
(* instructions; both end in HLT.  The image is loaded at the reset       *)
(* vector, where the harness maps the EXEC ROM.                           *)

\* an external instruction word: bit 9, operation, F1, F2
ExtOp(operation, f1, f2) == 512 + operation * 64 + f1 * 8 + f2

\* an internal instruction word: operation, F1, F2
IntOp(operation, f1, f2) == operation * 64 + f1 * 8 + f2

\* MVII #v, Rd is MVI@ R7, Rd followed by the immediate word
MVII(v, d) == <<ExtOp(MVI, 7, d), v>>

Prologue == MVII(32769, 1)

\* the instructions that set up a register, a flag, a memory word or R7
\* for the instruction that follows them
FirstInstructions ==
  { \* SDBD, EIS, SETC
    <<SDBD_OPCODE>>, <<IntOp(0, 0, 2)>>, <<IntOp(0, 0, 7)>>,
    \* JSRD R5,$1026 (outside every window) and JE $1005
    <<IntOp(0, 0, 4), 274, 38>>, <<IntOp(0, 0, 4), 785, 5>>,
    \* DECR R2, COMR R1, NEGR R1
    <<IntOp(0, 2, 2)>>, <<IntOp(0, 3, 1)>>, <<IntOp(0, 4, 1)>>,
    \* SARC R1,2
    <<IntOp(1, 7, 5)>>,
    \* MOVR R2,R7 (a jump to $0000) and ADDR R1,R1
    <<IntOp(2, 2, 7)>>, <<IntOp(3, 1, 1)>>,
    \* B $+3 and B onto itself
    <<ExtOp(B, 0, 0), 1>>, <<ExtOp(B, 4, 0), 1>>,
    \* MVO@ R1,R2  MVO@ R1,R4  MVO R1,$0002  MVO@ R1,R6 (PSHR R1)
    <<ExtOp(MVO, 2, 1)>>, <<ExtOp(MVO, 4, 1)>>, <<ExtOp(MVO, 0, 1), 2>>,
    <<ExtOp(MVO, 6, 1)>>,
    \* MVII R0 with the two bytes an SDBD prefix makes it read
    <<ExtOp(MVI, 7, 0), 205, 171>> }

Instructions ==
  FirstInstructions \cup
  { \* DIS, TCI, CLRC, HLT
    <<IntOp(0, 0, 3)>>, <<IntOp(0, 0, 5)>>, <<IntOp(0, 0, 6)>>, <<HLT_OPCODE>>,
    \* INCR R1, ADCR R1, GSWD R3, RSWD R1
    <<IntOp(0, 1, 1)>>, <<IntOp(0, 5, 1)>>, <<IntOp(0, 6, 3)>>, <<IntOp(0, 7, 1)>>,
    \* SWAP R1  SWAP R1,2  RLC R1  RLC R1,2
    <<IntOp(1, 0, 1)>>, <<IntOp(1, 0, 5)>>, <<IntOp(1, 2, 1)>>, <<IntOp(1, 2, 5)>>,
    \* MOVR R1,R3  MOVR R1,R6  SUBR R2,R1  CMPR R1,R2  ANDR R1,R2  XORR R1,R1
    <<IntOp(2, 1, 3)>>, <<IntOp(2, 1, 6)>>, <<IntOp(4, 2, 1)>>, <<IntOp(5, 1, 2)>>,
    <<IntOp(6, 1, 2)>>, <<IntOp(7, 1, 1)>>,
    \* BC $+3 and BNC $+2
    <<ExtOp(B, 0, 1), 1>>, <<ExtOp(B, 1, 1), 0>>,
    \* MVI@ R2,R3  MVI@ R4,R3  MVI $0002,R3  MVI $1001,R3  MVI@ R6,R3 (PULR R3)
    <<ExtOp(MVI, 2, 3)>>, <<ExtOp(MVI, 4, 3)>>, <<ExtOp(MVI, 0, 3), 2>>,
    <<ExtOp(MVI, 0, 3), 4097>>, <<ExtOp(MVI, 6, 3)>>,
    \* ADD@ R2,R3  AND@ R2,R1  XOR@ R3,R1
    <<ExtOp(ADD, 2, 3)>>, <<ExtOp(AND, 2, 1)>>, <<ExtOp(XOR, 3, 1)>>,
    \* B backwards by $FFFF (onto the next instruction), AND@ R6,R1,
    \* MVO@ R1,R7 (a store into the ROM)
    <<ExtOp(B, 4, 0), 65535>>, <<ExtOp(AND, 6, 1)>>, <<ExtOp(MVO, 7, 1), 7>>,
    \* MVII R0 with two words whose high bytes are not zero
    <<ExtOp(MVI, 7, 0), 4813, 13483>>,
    \* MVO R1,$0FFF (a store outside every window)
    <<ExtOp(MVO, 0, 1), 4095>> }

\* one instruction, or SDBD and one instruction, then HLT
ShortPrograms ==
  { x \o <<HLT_OPCODE>> : x \in Instructions }
  \cup { <<SDBD_OPCODE>> \o x \o <<HLT_OPCODE>> : x \in FirstInstructions }

Programs ==
  ShortPrograms
  \cup { Prologue \o x \o y \o <<HLT_OPCODE>> :
           x \in FirstInstructions, y \in Instructions }

\* the disassembler of the test harness: the target it prints for a branch
\* whose opcode word is at address a (its pc) and whose operand word is offset
DisassembledBranchTarget(a, opcode, offset) ==
  LET direction == IF Bit(opcode, 5) = 1 THEN -1 ELSE 1
  IN  a + (direction * offset + 1 + (IF direction > 0 THEN 1 ELSE 0))

\* new CP1610(bus): the field initialisers and the constructor
NewCP1610 ==
  [ts |-> 0, busSequence |-> "INITIALIZATION", busSequenceIndex |-> 0,
   opcode |-> 0, external |-> FALSE, operation |-> 0, f1 |-> 0, f2 |-> 0,
   effectiveAddress |-> 0, jumpOperand1 |-> null, jumpOperand2 |-> null,
   dtbData |-> 43690, r |-> [k \in 0 .. 7 |-> 0],
   s |-> FALSE, c |-> FALSE, z |-> FALSE, o |-> FALSE, i |-> FALSE,
   d |-> FALSE, halted |-> FALSE]

\* new RAM(bus, start, end)
NewRAM(start, end) ==
  [data |-> [k \in 1 .. (end - start) |-> 0], start |-> start, addr |-> null,
   ticks |-> 0, writable |-> TRUE]

\* new ROM(bus, start, data)
NewROM(start, data) ==
  [data |-> data, start |-> start, addr |-> null, ticks |-> 0, writable |-> FALSE]

---------------------------------------------------------------------------
(* What the properties observe of a run.  obs is written, never read, by  *)
(* the program's steps.                                                   *)

\* the party that writes Bus.data: 0 is the CPU, k > 0 is memory device k
CPU == 0

\* the six condition flags of the CPU
Flags(c) == [s |-> c.s, z |-> c.z, o |-> c.o, c |-> c.c, i |-> c.i, d |-> c.d]

\* the word arrays of all devices
MemData(m) == [k \in DOMAIN m |-> m[k].data]

\* the devices whose window holds address a
Owners(m, a) == { k \in DOMAIN m : a - m[k].start >= 0 /\ a - m[k].start < DataLen(m[k]) }

\* the word stored at address a, when one device's window holds it
Word(m, a) ==
  LET k == CHOOSE k \in Owners(m, a) : TRUE IN m[k].data[a - m[k].start + 1]

ObsInit ==
  [drivers |-> {},          \* who wrote Bus.data in the current host tick
   fetches |-> 0,           \* calls of onInstructionFetch so far
   mcs |-> 0,               \* micro-cycles begun since the current fetch began, it included
   sawIAB |-> FALSE,        \* Bus.flags has been IAB
   target |-> null,         \* the bus word the devices decoded at the last tick 3 of BAR or ADAR
   barAddr |-> null,        \* the address the CPU asserted at the last slot 2 of BAR
   dw |-> null,             \* the word the CPU last drove in DW or DWS
   \* the instruction decoded last: its word, D before the decode, the word
   \* decoded before it, the sequence and effective address the decode
   \* chose, the address its word was fetched from, and the registers
   \* before and after the decode
   decoded |-> [valid |-> FALSE, opcode |-> 0, d |-> FALSE, prev |-> null,
                seq |-> "INITIALIZATION", ea |-> 0, at |-> null,
                rBefore |-> NewCP1610.r, rAfter |-> NewCP1610.r],
   \* the registers and the sampled word just before the last execute
   exec |-> [valid |-> FALSE, r |-> NewCP1610.r, dtbData |-> NewCP1610.dtbData],
   \* the instruction completed last, and the micro-cycles it took
   done |-> [valid |-> FALSE, opcode |-> 0, d |-> FALSE, seq |-> "INITIALIZATION",
             total |-> 0],
   \* the registers and the flags when the current instruction's fetch
   \* began, and when the fetch of the instruction before it began
   before |-> [r |-> NewCP1610.r, flags |-> Flags(NewCP1610)],
   before2 |-> [r |-> NewCP1610.r, flags |-> Flags(NewCP1610)],
   \* the flags and the memory when the current instruction's fetch began
   start |-> [flags |-> [s |-> FALSE, z |-> FALSE, o |-> FALSE, c |-> FALSE,
                         i |-> FALSE, d |-> FALSE],
              data |-> << >>],
   \* the last completed MVO into a writable window
   lastWrite |-> [valid |-> FALSE, addr |-> 0, value |-> 0],
   \* the CPU and the bus phase when the CPU halted
   haltSnap |-> [valid |-> FALSE, cycles |-> 0, flags |-> NACT, cpu |-> NewCP1610]]

\* the CPU's step from c to res.cpu has completed INSTRUCTION_FETCH
FetchCompletes(c, res) ==
  ~c.halted /\ ~res.threw /\ res.cpu.ts = 3
  /\ c.busSequence = "INSTRUCTION_FETCH" /\ c.busSequenceIndex = 3

\* the CPU's step from c to res.cpu has completed an address, jump, branch
\* or pad sequence
SequenceCompletes(c, res) ==
  ~c.halted /\ ~res.threw /\ res.cpu.ts = 3
  /\ c.busSequence \notin {"INSTRUCTION_FETCH", "INITIALIZATION"}
  /\ c.busSequenceIndex + 1 = Len(BusSequences[c.busSequence])

ObsCpu(ob, c, b, m, cyc, res) ==
  LET c1 == res.cpu
      busControl == BusSequences[c.busSequence][c.busSequenceIndex + 1]
      o1 == [ob EXCEPT
               !.drivers = IF res.wrote THEN @ \cup {CPU} ELSE @,
               !.sawIAB = @ \/ res.bus.flags = IAB,
               !.barAddr = IF res.wrote /\ busControl = BAR THEN res.bus.data ELSE @,
               !.dw = IF res.wrote /\ busControl \in {DW, DWS} THEN res.bus.data ELSE @]
      o2 == IF res.fetched
              THEN [o1 EXCEPT
                      !.fetches = @ + 1,
                      !.done = [valid |-> ob.decoded.valid, opcode |-> ob.decoded.opcode,
                                d |-> ob.decoded.d, seq |-> ob.decoded.seq,
                                total |-> ob.mcs],
                      !.mcs = 1,
                      !.before = [r |-> c.r, flags |-> Flags(c)],
                      !.before2 = ob.before,
                      !.start = [flags |-> Flags(c), data |-> MemData(m)]]
            ELSE IF ~c.halted /\ c1.ts = 0 THEN [o1 EXCEPT !.mcs = @ + 1]
            ELSE o1
      o3 == IF FetchCompletes(c, res)
              THEN [o2 EXCEPT
                      !.decoded = [valid |-> TRUE, opcode |-> c.opcode, d |-> c.d,
                                   prev |-> IF ob.decoded.valid THEN ob.decoded.opcode
                                            ELSE null,
                                   seq |-> c1.busSequence, ea |-> c1.effectiveAddress,
                                   at |-> ob.barAddr,
                                   rBefore |-> c.r, rAfter |-> c1.r]]
            ELSE IF SequenceCompletes(c, res)
              THEN [o2 EXCEPT !.exec = [valid |-> TRUE, r |-> c.r, dtbData |-> c.dtbData]]
              ELSE o2
      o4 == IF SequenceCompletes(c, res)
               /\ c.busSequence \in {"ADDRESS_INDIRECT_WRITE", "ADDRESS_DIRECT_WRITE"}
              THEN [o3 EXCEPT
                      !.lastWrite =
                         IF \E k \in Owners(m, ob.target) : m[k].writable
                           THEN [valid |-> TRUE, addr |-> ob.target, value |-> ob.dw]
                           ELSE @]
              ELSE o3
  IN  IF ~c.halted /\ c1.halted
        THEN [o4 EXCEPT !.haltSnap = [valid |-> TRUE, cycles |-> cyc,
                                      flags |-> res.bus.flags, cpu |-> c1]]
        ELSE o4

ObsMem(ob, k, b, res) ==
  [ob EXCEPT
     !.drivers = IF res.wrote THEN @ \cup {k} ELSE @,
     !.target = IF b.flags \in {BAR, ADAR} /\ res.mem.ticks = 3 THEN b.data ELSE @]

---------------------------------------------------------------------------
(* The machine *)

\* the machine the test harness constructs, with image as the ROM at the
\* reset vector
Constructed(image) ==
  /\ bus = [data |-> 0, flags |-> NACT, ticks |-> 0]
  /\ cpu = NewCP1610
  /\ mem = <<NewRAM(0, RamLen), NewROM(RESET_VECTOR, image)>>
  /\ pc = 0
  /\ cycles = 0
  /\ thrown = FALSE
  /\ obs = ObsInit

Init == \E image \in Programs : Constructed(image)

\* the same machine on the short programs
ShortInit == \E image \in ShortPrograms : Constructed(image)

\* tick(): cycles += 1; bus.clock()
BusClock ==
  /\ pc = 0
  /\ ~thrown
  /\ cycles < MaxCycles
  /\ cycles' = cycles + 1
  /\ bus' = BusClockOp(bus)
  /\ pc' = 1
  /\ obs' = [obs EXCEPT !.drivers = {}]
  /\ UNCHANGED <<cpu, mem, thrown>>

\* devices.forEach: the CPU is registered first
CpuClock ==
  /\ pc = 1
  /\ LET res == CpuClockOp(cpu, bus) IN
       /\ cpu' = res.cpu
       /\ bus' = res.bus
       /\ thrown' = res.threw
       /\ obs' = ObsCpu(obs, cpu, bus, mem, cycles, res)
  /\ pc' = 2
  /\ UNCHANGED <<mem, cycles>>

\* devices.forEach: memory device k
MemClock(k) ==
  /\ pc = k + 1
  /\ ~thrown
  /\ LET res == RamClockOp(mem[k], bus) IN
       /\ mem' = [mem EXCEPT ![k] = res.mem]
       /\ bus' = res.bus
       /\ obs' = ObsMem(obs, k, bus, res)
  /\ pc' = IF k = Len(mem) THEN 0 ELSE pc + 1
  /\ UNCHANGED <<cpu, cycles, thrown>>

Next ==
  \/ BusClock
  \/ CpuClock
  \/ \E k \in DOMAIN mem : MemClock(k)

Spec == Init /\ [][Next]_vars

\* the host keeps clocking until it stops at MaxCycles
LiveSpec == ShortInit /\ [][Next]_vars /\ WF_vars(Next)


---------------------------------------------------------------------------
(* The instruction set on chosen operands.  The CPU is taken at the start  *)
(* of an instruction fetch with operands in R1 and R2 and any flags, and   *)
(* is run one bus sequence at a time; the memory answers each access with  *)
(* the word at the asserted address.                                       *)

\* the operand values: the corners of the 16-bit range, and words whose two
\* bytes differ
Values == {0, 1, 2, 255, 4660, 32767, 32768, 32769, 65535}

\* the word a read of address a delivers: the word stored there, or the
\* idle word of the bus when no window holds a
ReadWord(m, a) == IF Owners(m, a) = {} THEN 65535 ELSE Word(m, a)

\* the CPU after the micro-cycles n .. of its bus sequence, short of the end
\* of the last one: BAR asserts an address, ADAR replaces it by the word
\* stored there, DTB samples the word stored there
RECURSIVE RunTemplate(_, _, _, _)
RunTemplate(c, m, n, addr) ==
  LET template == BusSequences[c.busSequence]
      busControl == template[n]
      c0 == [c EXCEPT !.busSequenceIndex = n - 1]
      step == CASE busControl = BAR ->
                     [cpu |-> BarAssert(c0).cpu, addr |-> BarAssert(c0).addr]
                [] busControl = ADAR -> [cpu |-> c0, addr |-> ReadWord(m, addr)]
                [] busControl = DTB ->
                     [cpu |-> DtbSample(c0, ReadWord(m, addr)), addr |-> addr]
                [] OTHER -> [cpu |-> c0, addr |-> addr]
  IN  IF n = Len(template) THEN step.cpu
      ELSE RunTemplate(step.cpu, m, n + 1, step.addr)

\* the CPU at the start of a fetch at the reset vector, with a in R1, b in
\* R2, R3 pointing at address 0, and I, S, Z, O, C from the bits of f
AluCpu(a, b, f) ==
  [NewCP1610 EXCEPT
     !.ts = 3,
     !.busSequence = "INSTRUCTION_FETCH",
     !.r = [k \in 0 .. 7 |-> CASE k = 1 -> a [] k = 2 -> b
                               [] k = 7 -> RESET_VECTOR [] OTHER -> 0],
     !.i = (Bit(f, 4) = 1), !.s = (Bit(f, 3) = 1), !.z = (Bit(f, 2) = 1),
     !.o = (Bit(f, 1) = 1), !.c = (Bit(f, 0) = 1)]

\* the jumps: JSR R4, JSRE R5, JSRD R6, J with ff = 3, and JSRD R5 with the
\* six high bits of both operand words set; all to $1026
Jumps ==
  { <<IntOp(0, 0, 4), 16, 38>>, <<IntOp(0, 0, 4), 273, 38>>,
    <<IntOp(0, 0, 4), 530, 38>>, <<IntOp(0, 0, 4), 787, 38>>,
    <<IntOp(0, 0, 4), 64786, 64550>> }

\* the sixteen conditions of a forward branch, and three backward branches
Branches ==
  { <<ExtOp(B, n \div 8, n % 8), 1>> : n \in 0 .. 15 }
  \cup { <<ExtOp(B, 4, 0), 2>>, <<ExtOp(B, 4, 4), 2>>, <<ExtOp(B, 5, 1), 2>> }

\* the arithmetic and logic instructions with source a (R1, the word at
\* address 0 or the immediate word) and destination R2
Arithmetic(a) ==
  { \* ADD $0000,R2  ADD@ R3,R2  ADDI #a,R2
    <<ExtOp(ADD, 0, 2), 0>>, <<ExtOp(ADD, 3, 2)>>, <<ExtOp(ADD, 7, 2), a>>,
    \* SUB@ R3,R2  SUBI #a,R2  CMP $0000,R2  CMP@ R3,R2
    <<ExtOp(SUB, 3, 2)>>, <<ExtOp(SUB, 7, 2), a>>,
    <<ExtOp(CMP, 0, 2), 0>>, <<ExtOp(CMP, 3, 2)>>,
    \* AND $0000,R2  AND@ R3,R2  ANDI #a,R2
    <<ExtOp(AND, 0, 2), 0>>, <<ExtOp(AND, 3, 2)>>, <<ExtOp(AND, 7, 2), a>>,
    \* XOR $0000,R2  XOR@ R3,R2  XORI #a,R2
    <<ExtOp(XOR, 0, 2), 0>>, <<ExtOp(XOR, 3, 2)>>, <<ExtOp(XOR, 7, 2), a>>,
    \* ADDR R1,R2  ADDR R2,R2  SUBR R1,R2  CMPR R1,R2
    <<IntOp(3, 1, 2)>>, <<IntOp(3, 2, 2)>>, <<IntOp(4, 1, 2)>>, <<IntOp(5, 1, 2)>>,
    \* ANDR R1,R2  XORR R1,R2  XORR R2,R2 (CLRR R2)
    <<IntOp(6, 1, 2)>>, <<IntOp(7, 1, 2)>>, <<IntOp(7, 2, 2)>>,
    \* INCR R2  DECR R2  COMR R2  COMR R2 twice  ADCR R2
    <<IntOp(0, 1, 2)>>, <<IntOp(0, 2, 2)>>, <<IntOp(0, 3, 2)>>,
    <<IntOp(0, 3, 2), IntOp(0, 3, 2)>>, <<IntOp(0, 5, 2)>>,
    \* GSWD R2  GSWD R0  RSWD R2  GSWD R2 then RSWD R2
    <<IntOp(0, 6, 2)>>, <<IntOp(0, 6, 0)>>, <<IntOp(0, 7, 2)>>,
    <<IntOp(0, 6, 2), IntOp(0, 7, 2)>>,
    \* SWAP R2  SWAP R2,2  SWAP R2 twice
    <<IntOp(1, 0, 2)>>, <<IntOp(1, 0, 6)>>, <<IntOp(1, 0, 2), IntOp(1, 0, 2)>> }

\* SLL, RLC, SLLC, SLR, SAR, RRC, SARC on R2, by one bit and by two
Shifts == { <<IntOp(1, f, k)>> : f \in 1 .. 7, k \in {2, 6} }

\* NEGR R2
Negations == { <<IntOp(0, 4, 2)>> }

\* words above $03FF, the ten bits of an opcode: $0400, $0402, $FFFF
Unlisted == { <<1024>>, <<1026>>, <<65535>> }

\* every program ends with HLT
AluPrograms(a) ==
  { x \o <<HLT_OPCODE>> :
      x \in Jumps \cup Branches \cup Arithmetic(a) \cup Shifts \cup Negations
             \cup Unlisted }

\* the machine with a at address 0 of the RAM and image as the ROM; I is
\* set on entry only for the jumps, the one family here that touches it, and
\* for RSWD, which writes every other flag; the jumps, the branches and the
\* single-operand programs, which read neither R1 nor the RAM, run with
\* a = 0 only
AluInit ==
  \E a \in Values, b \in Values, f \in 0 .. 31 : \E image \in AluPrograms(a) :
    /\ f >= 16 => SubSeq(image, 1, Len(image) - 1) \in Jumps \cup {<<IntOp(0, 7, 2)>>}
    /\ SubSeq(image, 1, Len(image) - 1)
         \in Jumps \cup Branches \cup Shifts \cup Negations \cup Unlisted => a = 0
    /\ bus = [data |-> 0, flags |-> NACT, ticks |-> 0]
    /\ cpu = AluCpu(a, b, f)
    /\ mem = <<[NewRAM(0, RamLen) EXCEPT !.data[1] = a], NewROM(RESET_VECTOR, image)>>
    /\ pc = 0
    /\ cycles = 0
    /\ thrown = FALSE
    /\ obs = ObsInit

\* the four micro-cycles of INSTRUCTION_FETCH, the decode included
AluFetch ==
  /\ ~cpu.halted
  /\ cpu.busSequence = "INSTRUCTION_FETCH"
  /\ cycles < MaxCycles
  /\ Owners(mem, cpu.r[7]) # {}
  /\ LET pre == RunTemplate(cpu, mem, 1, null)
         post == EndOfMicroCycle(pre)
     IN  /\ cpu' = post
         /\ obs' = [obs EXCEPT
                      !.fetches = @ + 1,
                      !.before = [r |-> cpu.r, flags |-> Flags(cpu)],
                      !.before2 = obs.before,
                      !.start = [flags |-> Flags(cpu), data |-> MemData(mem)],
                      !.decoded = [valid |-> TRUE, opcode |-> pre.opcode, d |-> pre.d,
                                   prev |-> IF obs.decoded.valid
                                              THEN obs.decoded.opcode ELSE null,
                                   seq |-> post.busSequence,
                                   ea |-> post.effectiveAddress,
                                   at |-> cpu.r[7],
                                   rBefore |-> pre.r, rAfter |-> post.r]]
  /\ cycles' = cycles + 4 * Len(BusSequences[cpu.busSequence])
  /\ UNCHANGED <<bus, mem, pc, thrown>>

\* the micro-cycles of the sequence the decode chose, the execute included
AluExecute ==
  /\ ~cpu.halted
  /\ cpu.busSequence \notin {"INSTRUCTION_FETCH", "INITIALIZATION"}
  /\ LET pre == RunTemplate(cpu, mem, 1, null)
         post == EndOfMicroCycle(pre)
     IN  /\ cpu' = post
         /\ obs' = [obs EXCEPT
                      !.exec = [valid |-> TRUE, r |-> pre.r, dtbData |-> pre.dtbData]]
  /\ cycles' = cycles + 4 * Len(BusSequences[cpu.busSequence])
  /\ UNCHANGED <<bus, mem, pc, thrown>>

AluNext ==
  \/ AluFetch
  \/ AluExecute

AluSpec == AluInit /\ [][AluNext]_vars
---------------------------------------------------------------------------
(* The harness machine on every opcode word.  The ROM holds one word       *)
(* followed by zeros, which serve as its operands and then as HLT; the     *)
(* external opcodes also run behind an SDBD prefix.                        *)

\* the ten-bit opcodes, and words with bits above them
OpcodeWords == 0 .. 1023
WideWords == {1024, 1025, 1028, 2047, 32768, 43690, 65535}

WordPrograms ==
  { <<w, 0, 0, 0>> : w \in OpcodeWords \cup WideWords }
  \cup { <<SDBD_OPCODE, w, 0, 0, 0>> : w \in 512 .. 1023 }

WordInit == \E image \in WordPrograms : Constructed(image)

WordSpec == WordInit /\ [][Next]_vars

---------------------------------------------------------------------------
(* The harness with its devices registered in any order: one host tick is  *)
(* bus.clock() followed by clock() on every device in the order chosen.    *)

\* the order of the devices array of the harness: the CPU, the RAM, the ROM
Registration == <<CPU, 1, 2>>

\* every order of the same devices
Orders ==
  { order \in [1 .. 3 -> {CPU, 1, 2}] : \A i, j \in 1 .. 3 : order[i] = order[j] => i = j }

\* devices.forEach((device) => device.clock()) from position n of order on;
\* a throw ends the loop
RECURSIVE ClockInOrder(_, _, _)
ClockInOrder(s, order, n) ==
  IF n > Len(order) \/ s.thrown
    THEN s
    ELSE LET x == order[n]
             s1 == IF x = CPU
                     THEN LET res == CpuClockOp(s.cpu, s.bus) IN
                          [s EXCEPT !.cpu = res.cpu, !.bus = res.bus,
                                    !.thrown = res.threw]
                     ELSE LET res == RamClockOp(s.mem[x], s.bus) IN
                          [s EXCEPT !.mem[x] = res.mem, !.bus = res.bus]
         IN  ClockInOrder(s1, order, n + 1)

\* tick() with the devices in the given order
TickInOrder(b, c, m, order) ==
  ClockInOrder([bus |-> BusClockOp(b), cpu |-> c, mem |-> m, thrown |-> FALSE],
               order, 1)

OrderTick ==
  /\ pc = 0
  /\ ~thrown
  /\ cycles < MaxCycles
  /\ \E order \in Orders : \E s \in {TickInOrder(bus, cpu, mem, order)} :
         /\ bus' = s.bus
         /\ cpu' = s.cpu
         /\ mem' = s.mem
         /\ thrown' = s.thrown
  /\ cycles' = cycles + 1
  /\ UNCHANGED <<pc, obs>>

OrderSpec == Init /\ [][OrderTick]_vars

---------------------------------------------------------------------------
(* Properties.  pc = 0 is the end of a host tick: the bus, the CPU and    *)
(* every memory device have been clocked `cycles` times.                  *)

\* the fields of an instruction word
IsExternal(w) == Bit(w, 9) = 1
OperationOf(w) == (w \div 64) % 8
F1Of(w) == (w \div 8) % 8
F2Of(w) == w % 8

\* an external read (MVI, ADD, SUB, CMP, AND, XOR) in indirect mode
IsIndirectRead(w) == IsExternal(w) /\ OperationOf(w) >= MVI /\ F1Of(w) # 0

\* the instruction decoded last has just completed: the CPU is back in
\* INSTRUCTION_FETCH and has not begun the next fetch micro-cycle
JustCompleted ==
  /\ obs.decoded.valid
  /\ obs.decoded.seq # "INSTRUCTION_FETCH"
  /\ cpu.busSequence = "INSTRUCTION_FETCH"
  /\ cpu.busSequenceIndex = 0
  /\ cpu.ts = 3

\* the condition flags without D
FlagsNoD(f) == [s |-> f.s, z |-> f.z, o |-> f.o, c |-> f.c, i |-> f.i]

---------------------------------------------------------------------------
\* C1: for an external read in indirect mode without SDBD, the CPU asserts
\* the effective address A at slot 2 of BAR, the device whose window holds A
\* latches A - start at tick 3 of BAR (every other device latches null), that
\* device drives the word stored at A onto Bus.data at tick 1 of DTB, the CPU
\* samples it at slot 2 of DTB, and for MVI the destination register equals
\* the word stored at A when the instruction completes, all condition flags
\* being what they were when the instruction was fetched.
C1_IndirectRead ==
  LET w == obs.decoded.opcode
      A == obs.decoded.ea
      plain == obs.decoded.valid /\ IsIndirectRead(w) /\ ~obs.decoded.d
      reading == plain /\ cpu.busSequence # "INSTRUCTION_FETCH"
  IN  /\ plain => obs.decoded.seq = "ADDRESS_INDIRECT_READ"
      /\ reading => cpu.busSequence = "ADDRESS_INDIRECT_READ"
      /\ (reading /\ cpu.busSequenceIndex = 0 /\ cpu.ts = 2)
           => (bus.flags = BAR /\ bus.data = A /\ obs.barAddr = A)
      /\ (reading /\ cpu.busSequenceIndex = 1 /\ cpu.ts = 3 /\ pc = 0)
           => \A k \in DOMAIN mem :
                mem[k].addr = IF k \in Owners(mem, A) THEN A - mem[k].start ELSE null
      /\ (reading /\ cpu.busSequenceIndex = 2 /\ cpu.ts = 1 /\ pc = 0
            /\ Owners(mem, A) # {})
           => (bus.flags = DTB /\ bus.data = Word(mem, A)
               /\ obs.drivers = Owners(mem, A))
      /\ (reading /\ cpu.busSequenceIndex = 2 /\ cpu.ts = 2 /\ Owners(mem, A) # {})
           => cpu.dtbData = Word(mem, A)
      /\ (plain /\ JustCompleted /\ OperationOf(w) = MVI /\ Owners(mem, A) # {})
           => (cpu.r[F2Of(w)] = Word(mem, A) /\ Flags(cpu) = obs.start.flags)

\* MVI@ R2,R3 has completed and loaded the word $8001 that MVO@ R1,R2 stored
C1_Witness ==
  /\ JustCompleted
  /\ obs.decoded.opcode = ExtOp(MVI, 2, 3)
  /\ ~obs.decoded.d
  /\ obs.decoded.ea = 0
  /\ cpu.r[3] = 32769

---------------------------------------------------------------------------
IsMVO(w) == IsExternal(w) /\ OperationOf(w) = MVO

WritableOwner(a) == \E k \in Owners(mem, a) : mem[k].writable

\* every word of every device except the one at address a is what it was
\* when the instruction was fetched
OnlyWordChanged(a) ==
  \A k \in DOMAIN mem : \A j \in 1 .. DataLen(mem[k]) :
    (j - 1 + mem[k].start # a) => mem[k].data[j] = obs.start.data[k][j]

\* the store of an MVO: the word, the time of the store, the other words
C2_Store ==
  LET w == obs.decoded.opcode
      A == obs.target
      writing == obs.decoded.valid /\ IsMVO(w)
                 /\ cpu.busSequence \in {"ADDRESS_INDIRECT_WRITE", "ADDRESS_DIRECT_WRITE"}
  IN  /\ (obs.decoded.valid /\ IsMVO(w)) =>
           obs.decoded.seq = IF F1Of(w) = 0 THEN "ADDRESS_DIRECT_WRITE"
                             ELSE "ADDRESS_INDIRECT_WRITE"
      /\ (writing /\ bus.flags \in {BAR, ADAR, DW}) => MemData(mem) = obs.start.data
      /\ (writing /\ bus.flags = DWS /\ cpu.ts < 3) => MemData(mem) = obs.start.data
      /\ (writing /\ bus.flags = DWS /\ bus.ticks = 3 /\ pc = 0 /\ WritableOwner(A))
           => (Word(mem, A) = obs.dw /\ OnlyWordChanged(A))
      /\ (obs.decoded.valid /\ IsMVO(w) /\ JustCompleted /\ WritableOwner(A))
           => (Word(mem, A) = cpu.r[F2Of(w)] /\ obs.dw = cpu.r[F2Of(w)]
               /\ OnlyWordChanged(A))
      /\ (obs.decoded.valid /\ IsMVO(w) /\ JustCompleted /\ ~WritableOwner(A))
           => MemData(mem) = obs.start.data

\* an MVI decoded last has completed, and its address is the address of the
\* last completed MVO into a writable window
ReadBack ==
  LET w == obs.decoded.opcode
  IN  /\ obs.decoded.valid /\ JustCompleted
      /\ IsExternal(w) /\ OperationOf(w) = MVI
      /\ obs.lastWrite.valid /\ obs.target = obs.lastWrite.addr

\* C2 (corrected statement): an MVO whose address A lies in a writable window stores
\* the source register at A at tick 3 of DWS and changes no other word of any
\* device; of the condition flags only D can differ from its value when the
\* instruction was fetched (D is false afterwards); a later MVI from A that
\* is not prefixed by SDBD loads exactly the stored value.
C2_StoreAmended ==
  LET w == obs.decoded.opcode
  IN  /\ C2_Store
      /\ (obs.decoded.valid /\ IsMVO(w) /\ JustCompleted)
           => (FlagsNoD(Flags(cpu)) = FlagsNoD(obs.start.flags) /\ ~cpu.d)
      /\ (ReadBack /\ ~obs.decoded.d) => cpu.r[F2Of(w)] = obs.lastWrite.value

\* C2 as stated: no condition flag changes, and any later MVI from A loads
\* the stored value
C2_StoreOriginal ==
  LET w == obs.decoded.opcode
  IN  /\ C2_Store
      /\ (obs.decoded.valid /\ IsMVO(w) /\ JustCompleted)
           => Flags(cpu) = obs.start.flags
      /\ ReadBack => cpu.r[F2Of(w)] = obs.lastWrite.value

\* MVO@ R1,R2 stored $8001 at $0000 and MVI@ R2,R3 has read it back
C2_Witness ==
  /\ ReadBack
  /\ ~obs.decoded.d
  /\ obs.lastWrite.value = 32769
  /\ Word(mem, obs.lastWrite.addr) = 32769
  /\ cpu.r[F2Of(obs.decoded.opcode)] = 32769

---------------------------------------------------------------------------
CpuSlot ==
  \/ bus.flags = BAR /\ bus.ticks = 2
  \/ bus.flags = IAB /\ bus.ticks = 1
  \/ bus.flags \in {DW, DWS}

DeviceSlot == bus.flags \in {ADAR, DTB} /\ bus.ticks = 1

\* C3 (corrected statement): with non-overlapping windows at most one party writes
\* Bus.data in a host tick; at slot 2 of BAR, tick 1 of IAB and every tick of
\* DW and DWS exactly the CPU writes it; at tick 1 of ADAR and DTB the device
\* whose window holds the latched address writes it, and nobody writes it when
\* no window holds that address; in every other tick nobody writes it.
C3_OneDriver ==
  /\ Cardinality(obs.drivers) <= 1
  /\ (pc = 0 /\ CpuSlot) => obs.drivers = {CPU}
  /\ (pc = 0 /\ DeviceSlot) => obs.drivers = Owners(mem, obs.target)
  /\ (pc = 0 /\ ~CpuSlot /\ ~DeviceSlot) => obs.drivers = {}

\* C3 as stated: in every data slot exactly one party writes Bus.data
C3_OneDriverOriginal ==
  (pc = 0 /\ (CpuSlot \/ DeviceSlot)) => Cardinality(obs.drivers) = 1

\* tick 1 of the ADAR of a direct access: the ROM, and only it, drives the
\* operand word
C3_Witness ==
  /\ pc = 0
  /\ bus.flags = ADAR
  /\ bus.ticks = 1
  /\ obs.drivers = {2}
  /\ cpu.busSequence \in {"ADDRESS_DIRECT_READ", "ADDRESS_DIRECT_WRITE"}

---------------------------------------------------------------------------

\* the longest instruction: 4 micro-cycles of fetch and the longest template
FetchHorizon == 4 * (4 + Len(BusSequences.JUMP))

\* the CPU is in slot 0 of the first micro-cycle of INSTRUCTION_FETCH
AtFetchStart ==
  /\ cpu.busSequence = "INSTRUCTION_FETCH"
  /\ cpu.busSequenceIndex = 0
  /\ cpu.ts = 0

\* the host will clock the machine for at least one more instruction
HostKeepsClocking == ~cpu.halted /\ cycles + FetchHorizon <= MaxCycles

\* the CPU step that enters slot 0 of the first micro-cycle of INSTRUCTION_FETCH
BeginsFetch ==
  /\ pc = 1
  /\ ~cpu.halted
  /\ cpu'.ts = 0
  /\ cpu'.busSequence = "INSTRUCTION_FETCH"
  /\ cpu'.busSequenceIndex = 0

\* C4: while the host keeps clocking and the CPU is not halted, the CPU always
\* eventually begins another INSTRUCTION_FETCH or becomes halted, and the
\* onInstructionFetch callback fires exactly once per fetch: it fires in the
\* CPU step that enters slot 0 of the BAR micro-cycle of INSTRUCTION_FETCH,
\* and in no other step.
C4_FetchProgress ==
  /\ (HostKeepsClocking /\ ~(AtFetchStart /\ pc = 2)) ~> ((AtFetchStart /\ pc = 2) \/ cpu.halted)
  /\ [][/\ BeginsFetch => (obs'.fetches = obs.fetches + 1 /\ bus'.flags = BAR)
        /\ ~BeginsFetch => obs'.fetches = obs.fetches]_vars

\* the third fetch of a run has begun and the CPU is running
C4_Witness ==
  /\ obs.fetches = 3
  /\ ~cpu.halted
  /\ cpu.busSequence = "INSTRUCTION_FETCH"
  /\ cpu.busSequenceIndex = 0
  /\ cpu.ts = 0
  /\ bus.flags = BAR

---------------------------------------------------------------------------

\* the count the claim gives for instruction word w decoded with D = d and,
\* for a branch, taken or not; J is not in the claim's list (the code gives it
\* 4 + 9)
ListedCycles(w, d, taken) ==
  IF IsExternal(w)
    THEN CASE OperationOf(w) = B -> IF taken THEN 9 ELSE 7
           [] OperationOf(w) = MVO -> IF F1Of(w) = 0 THEN 11 ELSE 9
           [] OTHER -> IF F1Of(w) = 0 THEN 10 ELSE IF d THEN 10 ELSE 8
    ELSE CASE OperationOf(w) = 0 ->
                IF F1Of(w) # 0 THEN 6 ELSE IF F2Of(w) = 4 THEN 13 ELSE 4
           [] OperationOf(w) = 1 -> IF Bit(w, 2) = 1 THEN 8 ELSE 6
           [] OTHER -> 6

---------------------------------------------------------------------------
\* C6: MOVR whose destination is R6 or R7 and every doubled shift, rotate or
\* swap runs the four-NACT execute pad after its fetch; every other
\* register-register instruction and every single shift runs the two-NACT pad.
C6_ExecutePad ==
  LET w == obs.decoded.opcode
      movrToStackOrPc == OperationOf(w) = 2 /\ F2Of(w) \in {6, 7}
      doubled == OperationOf(w) = 1 /\ Bit(w, 2) = 1
  IN  (obs.decoded.valid /\ ~IsExternal(w) /\ OperationOf(w) >= 1) =>
        obs.decoded.seq = IF movrToStackOrPc \/ doubled THEN "EXEC_NACT_4"
                          ELSE "EXEC_NACT_2"

---------------------------------------------------------------------------
\* C7: once the fetch of an HLT opcode has completed, halted is true and stays
\* true, every later clock() call of the CPU changes nothing (registers,
\* flags, template, index and every other field keep the values they had
\* when the CPU halted), Bus.flags keeps its value, and the CPU never writes
\* Bus.data again.
C7_HaltIsFinal ==
  /\ (obs.decoded.valid /\ obs.decoded.opcode % 1024 = HLT_OPCODE) => cpu.halted
  /\ cpu.halted <=> obs.haltSnap.valid
  /\ obs.haltSnap.valid =>
       /\ cpu = obs.haltSnap.cpu
       /\ bus.flags = obs.haltSnap.flags
       /\ cycles > obs.haltSnap.cycles => CPU \notin obs.drivers

\* the halted CPU has been clocked for more than two micro-cycles
C7_Witness ==
  /\ obs.haltSnap.valid
  /\ cpu.halted
  /\ cycles > obs.haltSnap.cycles + 8

---------------------------------------------------------------------------
\* C8: D becomes true exactly when the fetch of an SDBD opcode completes; it
\* is still true when the next instruction is decoded, whose addressing sees
\* D = 1; it is false from that instruction's fetch completion onward unless
\* that instruction is SDBD; so D is never true at the decode of an
\* instruction whose preceding instruction was not SDBD.
C8_DoubleByteFlag ==
  LET w == obs.decoded.opcode IN
  /\ cpu.d <=> (obs.decoded.valid /\ w = SDBD_OPCODE)
  /\ obs.decoded.valid => (obs.decoded.d <=> obs.decoded.prev = SDBD_OPCODE)
  /\ (obs.decoded.valid /\ IsIndirectRead(w)) =>
       (obs.decoded.d <=> obs.decoded.seq = "ADDRESS_INDIRECT_READ_SDBD")

\* the instruction that follows an SDBD has been decoded with D = 1, and D is
\* false again
C8_Witness ==
  /\ obs.decoded.valid
  /\ obs.decoded.prev = SDBD_OPCODE
  /\ obs.decoded.d
  /\ obs.decoded.seq = "ADDRESS_INDIRECT_READ_SDBD"
  /\ ~cpu.d

---------------------------------------------------------------------------

\* the CPU has been clocked at least n times
CpuClocked(n) == cycles > n \/ (cycles = n /\ pc # 1)

\* C9: after construction the CPU runs INITIALIZATION exactly once (its five
\* micro-cycles end with host tick 19 and it is never entered again); R7 is
\* 0x1000 from slot 2 of the IAB micro-cycle until the first fetch; the first
\* INSTRUCTION_FETCH follows directly (host tick 20), asserts 0x1000 on
\* Bus.data at slot 2 of its BAR and leaves R7 = 0x1001.
C9_ResetSequence ==
  LET firstFetch == obs.fetches = 1 /\ cpu.busSequence = "INSTRUCTION_FETCH" IN
  /\ cpu.busSequence = "INITIALIZATION" <=> ~CpuClocked(19)
  /\ (cpu.busSequence = "INITIALIZATION"
        /\ (cpu.busSequenceIndex > 1 \/ (cpu.busSequenceIndex = 1 /\ cpu.ts = 2)))
       => cpu.r[7] = 4096
  /\ (CpuClocked(19) /\ ~CpuClocked(20)) =>
       (cpu.busSequence = "INSTRUCTION_FETCH" /\ cpu.busSequenceIndex = 0
        /\ cpu.r[7] = 4096 /\ obs.fetches = 0)
  /\ obs.fetches >= 1 <=> CpuClocked(20)
  /\ (firstFetch /\ cpu.busSequenceIndex = 0 /\ cpu.ts < 2) => cpu.r[7] = 4096
  /\ (firstFetch /\ cpu.busSequenceIndex = 0 /\ cpu.ts = 2) =>
       (bus.flags = BAR /\ bus.data = 4096 /\ obs.barAddr = 4096 /\ cycles \in {22, 23})
  /\ (firstFetch /\ (cpu.busSequenceIndex > 0 \/ cpu.ts = 2)) => cpu.r[7] = 4097

\* slot 2 of the BAR of the first fetch
C9_Witness ==
  /\ obs.fetches = 1
  /\ cpu.busSequence = "INSTRUCTION_FETCH"
  /\ cpu.busSequenceIndex = 0
  /\ cpu.ts = 2
  /\ bus.data = 4096
  /\ cpu.r[7] = 4097

---------------------------------------------------------------------------
\* C10 (corrected statement): clocking a freshly constructed machine for two
\* micro-cycles (8 host ticks) takes Bus.flags through IAB and leaves
\* R7 = 0x1000 (Bus.flags is IAB in ticks 4 .. 7 and R7 is sampled in tick 6);
\* three NACT micro-cycles follow, and INSTRUCTION_FETCH begins with
\* Bus.flags = BAR in host tick 20.
C10_ResetLatency ==
  /\ (pc = 0 /\ cycles < 4) => (bus.flags = NACT /\ ~obs.sawIAB /\ cpu.r[7] = 0)
  /\ (pc = 0 /\ cycles \in 4 .. 7) => (bus.flags = IAB /\ obs.sawIAB)
  /\ (pc = 0 /\ cycles \in 4 .. 5) => cpu.r[7] = 0
  /\ (pc = 0 /\ cycles \in 6 .. 21) => cpu.r[7] = 4096
  /\ (pc = 0 /\ cycles \in 8 .. 19) => (bus.flags = NACT /\ obs.sawIAB /\ obs.fetches = 0)
  /\ (pc = 0 /\ cycles \in 8 .. 18) => cpu.busSequence = "INITIALIZATION"
  /\ (pc = 0 /\ cycles = 20) =>
       (bus.flags = BAR /\ cpu.busSequence = "INSTRUCTION_FETCH"
        /\ cpu.busSequenceIndex = 0 /\ obs.fetches = 1)

\* C10 as stated: after one micro-cycle (4 host ticks) Bus.flags has been IAB
\* and R7 is 0x1000, and the next micro-cycle begins INSTRUCTION_FETCH with BAR
C10_ResetLatencyOriginal ==
  /\ (pc = 0 /\ cycles = 4) => (obs.sawIAB /\ cpu.r[7] = 4096)
  /\ (pc = 0 /\ cycles \in 4 .. 8) =>
       (bus.flags = BAR => cpu.busSequence = "INSTRUCTION_FETCH")
  /\ (pc = 0 /\ cycles = 8) =>
       (bus.flags = BAR /\ cpu.busSequence = "INSTRUCTION_FETCH")

\* host tick 20: the first fetch has begun
C10_Witness ==
  /\ pc = 0
  /\ cycles = 20
  /\ bus.flags = BAR
  /\ obs.sawIAB
  /\ cpu.r[7] = 4096
  /\ obs.fetches = 1

---------------------------------------------------------------------------
\* the ROM begins with JSRD R5,$1026: $0004, $0112, $0026
JumpVector ==
  /\ Len(mem[2].data) >= 3
  /\ SubSeq(mem[2].data, 1, 3) = <<4, 274, 38>>

---------------------------------------------------------------------------
\* the branch decoded last was taken and has just completed
TakenBranchCompleted ==
  /\ JustCompleted
  /\ obs.decoded.seq = "BRANCH_JUMP"
  /\ obs.exec.valid

\* R7 after a taken branch, from R7 after the operand was consumed and the
\* operand, as the claim gives it for each direction
BranchResultAsStated(w, r7, offset) ==
  IF Bit(w, 5) = 0 THEN W16(r7 + offset) ELSE W16(r7 - offset + 1)

\* C12 as stated: a taken backward branch leaves R7 = R7' - offset + 1
C12_BranchTakenOriginal ==
  TakenBranchCompleted =>
    cpu.r[7] = BranchResultAsStated(obs.decoded.opcode, obs.exec.r[7], obs.exec.dtbData)

\* C12 (corrected statement): when a taken branch completes, with R7' the value of R7
\* just after the operand word was consumed (the address of the opcode word
\* plus 2) and offset the operand word, R7 = (R7' + offset) mod 2^16 if
\* opcode bit 5 is clear and R7 = (R7' - offset - 1) mod 2^16 if opcode bit 5
\* is set.
C12_BranchTaken ==
  LET w == obs.decoded.opcode
      r7 == obs.exec.r[7]
      offset == obs.exec.dtbData
  IN  TakenBranchCompleted =>
        /\ r7 = W16(obs.decoded.at + 2)
        /\ r7 = W16(obs.barAddr + 1)
        /\ Owners(mem, obs.barAddr) # {} => offset = Word(mem, obs.barAddr)
        /\ Bit(w, 5) = 0 => cpu.r[7] = W16(r7 + offset)
        /\ Bit(w, 5) = 1 => cpu.r[7] = W16(r7 - offset - 1)

\* a backward branch by $FFFF has completed: R7 is the operand's address + 1
C12_Witness ==
  /\ TakenBranchCompleted
  /\ Bit(obs.decoded.opcode, 5) = 1
  /\ obs.exec.dtbData = 65535
  /\ cpu.r[7] = obs.exec.r[7]

---------------------------------------------------------------------------
\* slot 2 of the BAR of the fetch that follows a taken branch, once the CPU
\* has been clocked in it
FetchAfterTakenBranch ==
  /\ pc # 1
  /\ obs.decoded.valid
  /\ obs.decoded.seq = "BRANCH_JUMP"
  /\ obs.exec.valid
  /\ cpu.busSequence = "INSTRUCTION_FETCH"
  /\ cpu.busSequenceIndex = 0
  /\ cpu.ts = 2

\* C13: for a taken branch whose opcode word is at P and whose operand word
\* is offset, the next fetch asserts (P + 2 + offset) mod 2^16 when opcode
\* bit 5 is clear and (P + 1 - offset) mod 2^16 when it is set, which is
\* (mod 2^16) the target the disassembler of the test harness computes.
C13_BranchTarget ==
  LET w == obs.decoded.opcode
      P == obs.decoded.at
      offset == obs.exec.dtbData
  IN  FetchAfterTakenBranch =>
        /\ Owners(mem, W16(P + 1)) # {} => offset = Word(mem, W16(P + 1))
        /\ bus.flags = BAR
        /\ obs.drivers = {CPU}
        /\ bus.data = obs.barAddr
        /\ Bit(w, 5) = 0 => bus.data = W16(P + 2 + offset)
        /\ Bit(w, 5) = 1 => bus.data = W16(P + 1 - offset)
        /\ bus.data = W16(DisassembledBranchTarget(P, w, offset))

\* the fetch after B backwards by 1: the branch at P is fetched again
C13_Witness ==
  /\ FetchAfterTakenBranch
  /\ Bit(obs.decoded.opcode, 5) = 1
  /\ obs.exec.dtbData = 1
  /\ bus.data = obs.decoded.at
  /\ obs.fetches > 2

---------------------------------------------------------------------------
\* an external read (MVI, ADD, SUB, CMP, AND, XOR) in direct mode
IsDirectRead(w) == IsExternal(w) /\ OperationOf(w) >= MVI /\ F1Of(w) = 0

\* C14: for a direct-mode read (F1 = 0) the CPU asserts R7 at BAR and
\* increments R7 by exactly 1; at ADAR the device holding the operand word
\* drives it at tick 1 and every memory device latches that word as its
\* selected address at tick 3 (its offset if the word is in the device's
\* window, null otherwise); at the following DTB the newly selected device
\* drives its word, so for MVI the register R[F2] ends equal to the word
\* stored at the address contained in the operand word.
C14_DirectRead ==
  LET w == obs.decoded.opcode
      Q == W16(obs.decoded.at + 1)
      V == Word(mem, Q)
      direct == obs.decoded.valid /\ IsDirectRead(w) /\ Owners(mem, Q) # {}
      reading == direct /\ cpu.busSequence = "ADDRESS_DIRECT_READ"
      at(i, t) == reading /\ cpu.busSequenceIndex = i /\ cpu.ts = t /\ pc = 0
  IN  /\ direct =>
           (obs.decoded.seq = "ADDRESS_DIRECT_READ"
            /\ obs.decoded.rAfter = obs.decoded.rBefore
            /\ obs.decoded.rBefore[7] = Q)
      /\ (reading /\ cpu.busSequenceIndex = 0 /\ cpu.ts < 2) => cpu.r[7] = Q
      /\ at(0, 2) =>
           (bus.flags = BAR /\ bus.data = Q /\ obs.barAddr = Q
            /\ obs.drivers = {CPU})
      /\ (reading /\ (cpu.busSequenceIndex > 0 \/ cpu.ts = 2)) =>
           cpu.r[7] = W16(Q + 1)
      /\ at(2, 1) =>
           (bus.flags = ADAR /\ bus.data = V /\ obs.drivers = Owners(mem, Q))
      /\ at(3, 3) =>
           /\ bus.flags = ADAR
           /\ obs.target = V
           /\ \A k \in DOMAIN mem :
                mem[k].addr = IF k \in Owners(mem, V) THEN V - mem[k].start ELSE null
      /\ (at(4, 1) /\ Owners(mem, V) # {}) =>
           (bus.flags = DTB /\ bus.data = Word(mem, V)
            /\ obs.drivers = Owners(mem, V))
      /\ (at(4, 1) /\ Owners(mem, V) = {}) => obs.drivers = {}
      /\ (at(4, 2) /\ Owners(mem, V) # {}) => cpu.dtbData = Word(mem, V)
      /\ (direct /\ JustCompleted /\ OperationOf(w) = MVI /\ Owners(mem, V) # {})
           => cpu.r[F2Of(w)] = Word(mem, V)

\* MVI $0002,R3 has completed and loaded the word $8001 that MVO R1,$0002
\* stored
C14_Witness ==
  /\ JustCompleted
  /\ obs.decoded.opcode = ExtOp(MVI, 0, 3)
  /\ obs.decoded.seq = "ADDRESS_DIRECT_READ"
  /\ obs.target = 2
  /\ Word(mem, 2) = 32769
  /\ cpu.r[3] = 32769

---------------------------------------------------------------------------
\* the step is a clock() call of the CPU in which its time slot becomes 0
CpuEntersSlotZero == pc = 1 /\ ~cpu.halted /\ cpu'.ts = 0 /\ ~thrown'

---------------------------------------------------------------------------
\* C16 as stated: Bus.clock() sets data to $FFFF on exactly the calls where
\* the tick wraps from 3 to 0 while the phase is NACT, and leaves data
\* unchanged on every other call
C16_IdleWordOnWrap ==
  [][pc = 0 =>
       bus'.data = IF bus.ticks = 3 /\ bus'.ticks = 0 /\ bus.flags = NACT
                     THEN 65535 ELSE bus.data]_vars

\* C16 (corrected statement): Bus.clock() advances the tick by one modulo 4 (the tick
\* is always in 0 .. 3), leaves the phase alone, and sets data to $FFFF on
\* exactly the calls that advance the tick to 3 (from 2) while the phase is
\* NACT; on every other call it leaves data unchanged.
C16_IdleWordAtTickThree ==
  /\ [](bus.ticks \in 0 .. 3)
  /\ [][pc = 0 =>
          /\ bus'.ticks = (bus.ticks + 1) % 4
          /\ bus'.flags = bus.flags
          /\ bus'.data = IF bus.ticks = 2 /\ bus'.ticks = 3 /\ bus.flags = NACT
                           THEN 65535 ELSE bus.data]_vars

\* the third Bus.clock() call of a run has replaced the initial data word 0
\* by $FFFF
C16_Witness ==
  /\ pc = 1
  /\ cycles = 3
  /\ bus.ticks = 3
  /\ bus.flags = NACT
  /\ bus.data = 65535

---------------------------------------------------------------------------
\* the read-only devices
ReadOnly == { k \in DOMAIN mem : ~mem[k].writable }

\* C17: no step ever changes a word of a read-only device; a ROM latches
\* or clears its selection at tick 3 of BAR and ADAR and drives its selected
\* word at tick 1 of DTB, ADAR and IAB by the same rule as a RAM; and tick 3
\* of a DWS micro-cycle with a ROM selected stores nothing anywhere.
C17_RomIsReadOnly ==
  /\ [][\A k \in ReadOnly : mem'[k].data = mem[k].data /\ ~mem'[k].writable]_vars
  /\ [][\A k \in DOMAIN mem :
          (pc = k + 1 /\ ~thrown) =>
            LET drives == mem'[k].ticks = 1 /\ bus.flags \in {DTB, ADAR, IAB}
                          /\ mem[k].addr # null
            IN  /\ drives => (bus'.data = mem[k].data[mem[k].addr + 1]
                              /\ k \in obs'.drivers /\ mem'[k].addr = null)
                /\ ~drives => (bus'.data = bus.data /\ k \notin obs'.drivers)]_vars
  /\ []((pc = 0 /\ bus.flags \in {BAR, ADAR} /\ bus.ticks = 3) =>
          \A k \in DOMAIN mem :
            mem[k].addr = IF k \in Owners(mem, bus.data)
                            THEN bus.data - mem[k].start ELSE null)
  /\ []((pc = 0 /\ bus.flags = DWS /\ bus.ticks = 3
           /\ \E k \in ReadOnly : mem[k].addr # null) =>
          MemData(mem) = obs.start.data)

\* tick 3 of the DWS of MVO@ R1,R7: the ROM is selected, the CPU drives
\* $8001, and the selected word is still the 7 of the image
C17_Witness ==
  /\ pc = 0
  /\ bus.flags = DWS
  /\ bus.ticks = 3
  /\ 2 \in ReadOnly
  /\ mem[2].addr # null
  /\ bus.data = 32769
  /\ mem[2].data[mem[2].addr + 1] = 7

---------------------------------------------------------------------------
\* an external instruction that is not a branch
IsExternalNonBranch(w) == IsExternal(w) /\ OperationOf(w) # B

\* slot 2 of the first BAR of the sequence the last decode chose, once the
\* CPU has been clocked in it
FirstAccess ==
  /\ pc # 1
  /\ cpu.busSequence = obs.decoded.seq
  /\ cpu.busSequence # "INSTRUCTION_FETCH"
  /\ cpu.busSequenceIndex = 0
  /\ cpu.ts = 2

\* C18: at the decode of an external non-branch instruction, if F1 is 1, 2
\* or 3 the effective address is R[F1] and no register changes; if F1 is 4,
\* 5 or 7 the effective address is the old R[F1] and R[F1] is then increased
\* by 2 when D is set and by 1 otherwise (mod 2^16), no other register
\* changing; in both cases the bus access that follows asserts the old value
\* of R[F1] as its address.
C18_EffectiveAddress ==
  LET w == obs.decoded.opcode
      f1 == F1Of(w)
      old == obs.decoded.rBefore
      case == obs.decoded.valid /\ IsExternalNonBranch(w)
  IN  /\ (case /\ f1 \in {1, 2, 3}) =>
           (obs.decoded.ea = old[f1] /\ obs.decoded.rAfter = old)
      /\ (case /\ f1 \in {4, 5, 7}) =>
           /\ obs.decoded.ea = old[f1]
           /\ obs.decoded.rAfter =
                [old EXCEPT ![f1] = W16(old[f1] + (IF obs.decoded.d THEN 2 ELSE 1))]
      /\ (case /\ f1 \in {1, 2, 3, 4, 5, 7} /\ FirstAccess) =>
           (bus.flags = BAR /\ bus.data = old[f1] /\ obs.barAddr = old[f1]
            /\ obs.drivers = {CPU})

\* the first BAR of MVO@ R1,R4 decoded with D set: R4 has gone from 0 to 2
\* and the address asserted is 0
C18_Witness ==
  /\ FirstAccess
  /\ obs.decoded.opcode = ExtOp(MVO, 4, 1)
  /\ obs.decoded.d
  /\ obs.decoded.rBefore[4] = 0
  /\ cpu.r[4] = 2
  /\ bus.data = 0

---------------------------------------------------------------------------
\* C19: every indirect read through R6 (F1 = 6 with MVI@, ADD@, SUB@, CMP@,
\* AND@ or XOR@) first decreases R6 by (D ? 2 : 1) and reads from the
\* decreased address, and every indirect write through R6 (MVO@ with F1 = 6)
\* writes at the old R6 and then increases R6 by (D ? 2 : 1).
C19_StackAccess ==
  LET w == obs.decoded.opcode
      old == obs.decoded.rBefore
      offset == IF obs.decoded.d THEN 2 ELSE 1
      through6 == obs.decoded.valid /\ IsExternalNonBranch(w) /\ F1Of(w) = 6
  IN  /\ (through6 /\ OperationOf(w) >= MVI) =>
           /\ obs.decoded.rAfter = [old EXCEPT ![6] = W16(old[6] - offset)]
           /\ obs.decoded.ea = W16(old[6] - offset)
           /\ FirstAccess => bus.data = W16(old[6] - offset)
      /\ (through6 /\ OperationOf(w) = MVO) =>
           /\ obs.decoded.rAfter = [old EXCEPT ![6] = W16(old[6] + offset)]
           /\ obs.decoded.ea = old[6]
           /\ FirstAccess => bus.data = old[6]

---------------------------------------------------------------------------
\* MVI@ R7,R0 was decoded with D set, and both words after it are in a window
DoubleByteImmediate ==
  /\ obs.decoded.valid
  /\ obs.decoded.opcode = ExtOp(MVI, 7, 0)
  /\ obs.decoded.d
  /\ Owners(mem, W16(obs.decoded.at + 1)) # {}
  /\ Owners(mem, W16(obs.decoded.at + 2)) # {}

\* C20: with D = 1, MVI@ R7,R0 reads the two words that follow its opcode
\* word and leaves in R0 the low byte of the first as its low byte and the
\* low byte of the second as its high byte (R0 = $ABCD for low bytes $CD and
\* then $AB, the high bytes of both words being ignored); R7 advances by
\* exactly 2 past the opcode word, from P + 1 to P + 3 for an opcode word at
\* P, and D is 0 when the instruction completes.
C20_DoubleByteImmediate ==
  LET P == obs.decoded.at
      first == Word(mem, W16(P + 1))
      second == Word(mem, W16(P + 2))
      running == DoubleByteImmediate /\ cpu.busSequence = "ADDRESS_INDIRECT_READ_SDBD"
  IN  /\ DoubleByteImmediate =>
           /\ obs.decoded.seq = "ADDRESS_INDIRECT_READ_SDBD"
           /\ obs.decoded.rBefore[7] = W16(P + 1)
           /\ obs.decoded.rAfter[7] = W16(P + 3)
           /\ ~cpu.d
      /\ (running /\ pc # 1 /\ cpu.busSequenceIndex = 0 /\ cpu.ts = 2) =>
           bus.data = W16(P + 1)
      /\ (running /\ pc # 1 /\ cpu.busSequenceIndex = 3 /\ cpu.ts = 2) =>
           bus.data = W16(P + 2)
      /\ (DoubleByteImmediate /\ JustCompleted) =>
           /\ cpu.r[0] = (second % 256) * 256 + (first % 256)
           /\ (first % 256 = 205 /\ second % 256 = 171) => cpu.r[0] = 43981
           /\ cpu.r[7] = W16(P + 3)
           /\ ~cpu.d

\* SDBD; MVII R0 on the words $12CD and $34AB has completed with R0 = $ABCD
C20_Witness ==
  /\ DoubleByteImmediate
  /\ JustCompleted
  /\ Word(mem, W16(obs.decoded.at + 1)) = 4813
  /\ Word(mem, W16(obs.decoded.at + 2)) = 13483
  /\ cpu.r[0] = 43981
  /\ cpu.r[7] = W16(obs.decoded.at + 3)
  /\ ~cpu.d

---------------------------------------------------------------------------
(* Properties of the instruction set, stated on the instruction-level     *)
(* machine: a state with the CPU in INSTRUCTION_FETCH follows the         *)
(* completion of the instruction decoded last.                            *)

\* the instruction decoded last has completed
Completed ==
  /\ obs.decoded.valid
  /\ cpu.busSequence = "INSTRUCTION_FETCH"

\* the instruction decoded last ran a sequence after its fetch and has
\* completed
Executed == Completed /\ obs.decoded.seq # "INSTRUCTION_FETCH" /\ obs.exec.valid

\* registers q and r agree except at the indices in except
SameRegisters(q, r, except) == \A k \in (0 .. 7) \ except : q[k] = r[k]

\* the flags S, Z, O, C of a flag record
Szoc(f) == <<f.s, f.z, f.o, f.c>>

---------------------------------------------------------------------------
\* C21: when the JUMP template completes with operand words hi (first) and
\* lo (second), R7 = ((hi & $00FC) << 8) | (lo & $03FF); with
\* rr = (hi >> 8) & 3, if rr is 0, 1 or 2 then R4, R5 or R6 holds the address
\* of the word following the second operand, and if rr = 3 no link register
\* is written; with ff = hi & 3, I is set when ff = 1, cleared when ff = 2
\* and unchanged when ff is 0 or 3; S, Z, O, C and every other register are
\* unchanged.
C21_Jump ==
  LET P == obs.decoded.at
      hi == Word(mem, W16(P + 1))
      lo == Word(mem, W16(P + 2))
      rr == (hi \div 256) % 4
      ff == hi % 4
      link == IF rr = 3 THEN {} ELSE {4 + rr}
  IN  (Executed /\ obs.decoded.seq = "JUMP") =>
        /\ cpu.r[7] = Or16(And16(hi, 252) * 256, And16(lo, 1023))
        /\ \A k \in link : cpu.r[k] = W16(P + 3)
        /\ SameRegisters(cpu.r, obs.before.r, link \cup {7})
        /\ cpu.i = CASE ff = 1 -> TRUE [] ff = 2 -> FALSE [] OTHER -> obs.before.flags.i
        /\ Szoc(Flags(cpu)) = Szoc(obs.before.flags)

\* JSRD R5,$1026 with the high bits of both operand words set has completed,
\* entered with I set
C21_Witness ==
  /\ Executed
  /\ obs.decoded.seq = "JUMP"
  /\ Word(mem, W16(obs.decoded.at + 1)) = 64786
  /\ obs.before.flags.i
  /\ ~cpu.i
  /\ cpu.r[5] = 4099
  /\ cpu.r[7] = 4134

---------------------------------------------------------------------------
\* a branch instruction word
IsBranch(w) == IsExternal(w) /\ OperationOf(w) = B

\* the base condition the bits 2..0 of a branch opcode select: B, BC, BOV,
\* BPL, BEQ, BLT, BLE, BUSC
BaseCondition(w, f) ==
  LET n == w % 8 IN
  \/ n = 0
  \/ n = 1 /\ f.c
  \/ n = 2 /\ f.o
  \/ n = 3 /\ ~f.s
  \/ n = 4 /\ f.z
  \/ n = 5 /\ f.s # f.o
  \/ n = 6 /\ (f.z \/ f.s # f.o)
  \/ n = 7 /\ f.s # f.c

---------------------------------------------------------------------------
\* the CPU after the register-to-register instruction of operation k
\* (ADDR = 3, SUBR = 4, CMPR = 5, ANDR = 6, XORR = 7) with source a in R0 and
\* destination b in R1, entered with the flags f
RegisterForm(k, a, b, f) ==
  ExecuteRegisterRegister(
    [NewCP1610 EXCEPT !.operation = k, !.f1 = 0, !.f2 = 1,
                      !.r = [j \in 0 .. 7 |-> IF j = 0 THEN a ELSE b],
                      !.s = f.s, !.z = f.z, !.o = f.o, !.c = f.c])

\* C23: once the address template of an external ADD, SUB or CMP (direct,
\* indirect or immediate) completes, R[F2] and S, Z, O, C are what ADDR,
\* SUBR, CMPR produce with the fetched memory word as source a and the old
\* R[F2] as destination b.
C23_ExternalArithmetic ==
  LET w == obs.decoded.opcode
      a == obs.exec.dtbData
      b == obs.exec.r[F2Of(w)]
      q == RegisterForm(OperationOf(w), a, b, obs.before.flags)
  IN  (Executed /\ IsExternal(w) /\ OperationOf(w) \in {ADD, SUB, CMP}) =>
        /\ cpu.r[F2Of(w)] = q.r[1]
        /\ Szoc(Flags(cpu)) = Szoc(Flags(q))

---------------------------------------------------------------------------
\* a 16-bit word is negative as a two's complement number
Negative(x) == x >= 32768

\* the register-to-register instruction of operation k has completed
RegisterRegisterDone(k) ==
  /\ Executed
  /\ ~IsExternal(obs.decoded.opcode)
  /\ OperationOf(obs.decoded.opcode) = k

\* C24: ADDR Rs,Rd with a = Rs and b = Rd leaves Rd = (a + b) mod 2^16, C set
\* iff a + b > $FFFF, Z iff the 16-bit result is 0, S iff bit 15 of the
\* result is set, and O iff a and b have the same sign bit and the result's
\* sign bit differs from it; no other register than Rd and R7 changes.
C24_Addr ==
  LET w == obs.decoded.opcode
      a == obs.exec.r[F1Of(w)]
      b == obs.exec.r[F2Of(w)]
      result == (a + b) % 65536
  IN  RegisterRegisterDone(3) =>
        /\ cpu.r[F2Of(w)] = result
        /\ cpu.c <=> a + b > 65535
        /\ cpu.z <=> result = 0
        /\ cpu.s <=> Bit(result, 15) = 1
        /\ cpu.o <=> (Negative(a) = Negative(b) /\ Negative(result) # Negative(a))
        /\ SameRegisters(cpu.r, obs.exec.r, {F2Of(w)})

\* ADDR R1,R2 on $7FFF and $0001 has given $8000 with S = 1, Z = 0, O = 1,
\* C = 0, entered with C set
C24_Witness ==
  /\ RegisterRegisterDone(3)
  /\ obs.exec.r[1] = 32767
  /\ obs.exec.r[2] = 1
  /\ obs.before.flags.c
  /\ cpu.r[2] = 32768
  /\ cpu.s /\ ~cpu.z /\ cpu.o /\ ~cpu.c

---------------------------------------------------------------------------
\* the single-register instruction with F1 = k has completed
SingleRegisterDone(k) ==
  /\ Executed
  /\ ~IsExternal(obs.decoded.opcode)
  /\ OperationOf(obs.decoded.opcode) = 0
  /\ F1Of(obs.decoded.opcode) = k

\* C25: ADCR Rd leaves Rd = (Rd + (C ? 1 : 0)) mod 2^16, C set iff the
\* unbounded sum exceeded $FFFF, O set iff signed overflow occurred (operands
\* of equal sign, result of different sign), Z and S from the result; C and
\* O are recomputed by this rule whether C was set or clear on entry.
C25_Adcr ==
  LET w == obs.decoded.opcode
      b == obs.exec.r[F2Of(w)]
      carry == IF obs.before.flags.c THEN 1 ELSE 0
      result == (b + carry) % 65536
  IN  SingleRegisterDone(5) =>
        /\ cpu.r[F2Of(w)] = result
        /\ cpu.c <=> b + carry > 65535
        /\ cpu.o <=> (~Negative(b) /\ Negative(result))
        /\ cpu.z <=> result = 0
        /\ cpu.s <=> Bit(result, 15) = 1

---------------------------------------------------------------------------
\* C26: SUBR Rs,Rd and CMPR Rs,Rd with a = Rs and b = Rd set C iff b >= a
\* (unsigned), Z iff b = a, S iff bit 15 of (b - a) mod 2^16 is set, and O
\* iff a and b have different sign bits and the result's sign bit equals
\* a's; SUBR stores (b - a) mod 2^16 in Rd, CMPR changes no register, and
\* the flags of CMPR are those of SUBR on the same inputs.
C26_SubrCmpr ==
  LET w == obs.decoded.opcode
      a == obs.exec.r[F1Of(w)]
      b == obs.exec.r[F2Of(w)]
      result == (b - a + 65536) % 65536
      subr == RegisterForm(4, a, b, obs.before.flags)
  IN  (RegisterRegisterDone(4) \/ RegisterRegisterDone(5)) =>
        /\ cpu.c <=> b >= a
        /\ cpu.z <=> b = a
        /\ cpu.s <=> Bit(result, 15) = 1
        /\ cpu.o <=> (Negative(a) # Negative(b) /\ Negative(result) = Negative(a))
        /\ RegisterRegisterDone(4) =>
             (cpu.r[F2Of(w)] = result /\ SameRegisters(cpu.r, obs.exec.r, {F2Of(w)}))
        /\ RegisterRegisterDone(5) =>
             (cpu.r = obs.exec.r /\ Szoc(Flags(cpu)) = Szoc(Flags(subr)))

\* CMPR R1,R2 on a = $0002 and b = $8001 has left R2 and set S = 0, Z = 0,
\* O = 1, C = 1, as SUBR does with the result $7FFF
C26_Witness ==
  /\ RegisterRegisterDone(5)
  /\ obs.exec.r[1] = 2
  /\ obs.exec.r[2] = 32769
  /\ cpu.r[2] = 32769
  /\ RegisterForm(4, 2, 32769, obs.before.flags).r[1] = 32767
  /\ ~cpu.s /\ ~cpu.z /\ cpu.o /\ cpu.c

---------------------------------------------------------------------------
\* the AND (k = 6) or XOR (k = 7) instruction decoded last, register or
\* external form, has completed
BitwiseDone(k) ==
  /\ Executed
  /\ OperationOf(obs.decoded.opcode) = k

\* the source operand of the bitwise instruction decoded last: R[F1] for the
\* register form, the word read from memory for the external forms (the
\* direct, indirect and immediate operands of an image all hold RAM word 0)
BitwiseSource ==
  IF IsExternal(obs.decoded.opcode)
    THEN mem[1].data[1]
    ELSE obs.exec.r[F1Of(obs.decoded.opcode)]

\* x is the bitwise AND (k = 6) or XOR (k = 7) of the 16-bit words a and b
IsBitwise(k, x, a, b) ==
  /\ x \in 0 .. 65535
  /\ \A n \in 0 .. 15 :
       Bit(x, n) = 1 <=>
         IF k = 6 THEN Bit(a, n) = 1 /\ Bit(b, n) = 1
                  ELSE Bit(a, n) # Bit(b, n)

\* C27: the AND family (ANDR, AND, ANDI, AND@) and the XOR family (XORR, XOR,
\* XORI, XOR@) store the bitwise AND, respectively XOR, of source and
\* destination in R[F2], set Z iff the result is 0 and S iff bit 15 of the
\* result is set, and leave C and O unchanged; XORR r,r yields r = 0, Z = 1,
\* S = 0.
C27_Bitwise ==
  LET w == obs.decoded.opcode
      d == F2Of(w)
  IN  \A k \in {6, 7} :
        BitwiseDone(k) =>
          /\ IsBitwise(k, cpu.r[d], BitwiseSource, obs.exec.r[d])
          /\ cpu.z <=> cpu.r[d] = 0
          /\ cpu.s <=> Bit(cpu.r[d], 15) = 1
          /\ cpu.c = obs.before.flags.c
          /\ cpu.o = obs.before.flags.o
          /\ (k = 7 /\ ~IsExternal(w) /\ F1Of(w) = d) =>
               (cpu.r[d] = 0 /\ cpu.z /\ ~cpu.s)

\* XOR@ R3,R2 of the memory word $7FFF into R2 = $8001 has left $FFFE with
\* S = 1, Z = 0 and the carry it was entered with
C27_Witness ==
  /\ BitwiseDone(7)
  /\ obs.decoded.opcode = ExtOp(XOR, 3, 2)
  /\ obs.exec.r[2] = 32769
  /\ mem[1].data[1] = 32767
  /\ cpu.r[2] = 65534 /\ cpu.s /\ ~cpu.z
  /\ obs.before.flags.c /\ cpu.c

---------------------------------------------------------------------------
\* the second instruction of an image that repeats its first word has
\* completed
SecondOfPair(w) ==
  /\ Completed
  /\ obs.fetches = 2
  /\ obs.decoded.opcode = w
  /\ mem[2].data[1] = w
  /\ mem[2].data[2] = w

\* C28: INCR, DECR and COMR replace Rd by (Rd + 1) mod 2^16, (Rd - 1) mod
\* 2^16 and Rd XOR $FFFF, set Z iff the result is 0 and S iff bit 15 of the
\* result is set, and never change C or O; $7FFF increments to $8000 with
\* S = 1 and Z = 0, $FFFF increments to $0000 with Z = 1 and S = 0, and COMR
\* applied twice restores Rd.
C28_IncrDecrComr ==
  LET w == obs.decoded.opcode
      d == F2Of(w)
      b == obs.exec.r[d]
  IN  /\ \A k \in 1 .. 3 :
           SingleRegisterDone(k) =>
             /\ cpu.r[d] = CASE k = 1 -> (b + 1) % 65536
                             [] k = 2 -> (b + 65535) % 65536
                             [] k = 3 -> 65535 - b
             /\ SameRegisters(cpu.r, obs.exec.r, {d})
             /\ cpu.z <=> cpu.r[d] = 0
             /\ cpu.s <=> Bit(cpu.r[d], 15) = 1
             /\ cpu.c = obs.before.flags.c
             /\ cpu.o = obs.before.flags.o
             /\ (k = 1 /\ b = 32767) => (cpu.r[d] = 32768 /\ cpu.s /\ ~cpu.z)
             /\ (k = 1 /\ b = 65535) => (cpu.r[d] = 0 /\ cpu.z /\ ~cpu.s)
      /\ SecondOfPair(IntOp(0, 3, 2)) => cpu.r[2] = obs.before2.r[2]

\* INCR R2 on $FFFF, entered with C clear and O set, has left $0000 with
\* Z = 1, S = 0, C = 0 and O = 1
C28_Witness ==
  /\ SingleRegisterDone(1)
  /\ obs.exec.r[2] = 65535
  /\ cpu.r[2] = 0 /\ cpu.z /\ ~cpu.s
  /\ ~obs.before.flags.c /\ obs.before.flags.o
  /\ ~cpu.c /\ cpu.o

\* the second COMR of COMR R2; COMR R2 has completed on a nonzero word
C28_ComrTwice ==
  /\ SecondOfPair(IntOp(0, 3, 2))
  /\ obs.before2.r[2] = 4660
  /\ obs.before.r[2] = 60875
  /\ cpu.r[2] = 4660

---------------------------------------------------------------------------
\* n = 8*S + 4*Z + 2*O + C of a flag record
StatusNibble(f) ==
  (IF f.s THEN 8 ELSE 0) + (IF f.z THEN 4 ELSE 0)
    + (IF f.o THEN 2 ELSE 0) + (IF f.c THEN 1 ELSE 0)

\* RSWD R2 has completed right after GSWD R2
RswdAfterGswd ==
  /\ Completed
  /\ obs.fetches = 2
  /\ obs.decoded.opcode = IntOp(0, 7, 2)
  /\ mem[2].data[1] = IntOp(0, 6, 2)

C29_RswdKeepsI ==
  /\ SingleRegisterDone(7)
  /\ obs.exec.r[2] = 255
  /\ obs.before.flags.i /\ cpu.i
  /\ cpu.s /\ cpu.z /\ cpu.o /\ cpu.c

---------------------------------------------------------------------------
\* the SWAP decoded last has completed
SwapDone ==
  /\ Executed
  /\ ~IsExternal(obs.decoded.opcode)
  /\ OperationOf(obs.decoded.opcode) = 1
  /\ F1Of(obs.decoded.opcode) = 0

\* C30: SWAP Rd (single, d in 0..3) exchanges the high and low bytes of Rd,
\* so two single SWAPs restore the original word; SWAP Rd,2 copies the low
\* byte into both bytes; in both forms S is set iff bit 7 of the result is
\* set, Z iff the whole result word is 0, and C and O are unchanged.
C30_Swap ==
  LET w == obs.decoded.opcode
      d == F2Of(w) % 4
      double == F2Of(w) >= 4
      b == obs.exec.r[d]
  IN  /\ SwapDone =>
           /\ cpu.r[d] = IF double THEN (b % 256) * 256 + (b % 256)
                                   ELSE (b % 256) * 256 + (b \div 256)
           /\ SameRegisters(cpu.r, obs.exec.r, {d})
           /\ cpu.s <=> Bit(cpu.r[d], 7) = 1
           /\ cpu.z <=> cpu.r[d] = 0
           /\ cpu.c = obs.before.flags.c
           /\ cpu.o = obs.before.flags.o
      /\ SecondOfPair(IntOp(1, 0, 2)) => cpu.r[2] = obs.before2.r[2]

\* the second SWAP of SWAP R2; SWAP R2 has restored $1234 from $3412, with
\* S = 0 from bit 7 of $1234, and the carry it was entered with
C30_Witness ==
  /\ SwapDone
  /\ SecondOfPair(IntOp(1, 0, 2))
  /\ obs.before2.r[2] = 4660
  /\ obs.exec.r[2] = 13330
  /\ cpu.r[2] = 4660
  /\ ~cpu.s /\ ~cpu.z
  /\ obs.before.flags.c /\ cpu.c

\* SWAP R2 on $8000 has left $0080 with S = 1 from bit 7
C30_SwapSignBit ==
  /\ SwapDone
  /\ obs.exec.r[2] = 32768
  /\ cpu.r[2] = 128
  /\ cpu.s

---------------------------------------------------------------------------
(* Halting, rotates and shifts, NEGR, unlisted words *)

\* the CPU is about to complete INSTRUCTION_FETCH on the word w: it is
\* clocked next, in the last slot of the last micro-cycle of the template
FetchCompletesOn(w) ==
  /\ pc = 1
  /\ cpu.busSequence = "INSTRUCTION_FETCH"
  /\ cpu.busSequenceIndex = Len(BusSequences["INSTRUCTION_FETCH"]) - 1
  /\ cpu.ts = 2
  /\ cpu.opcode = w

\* C31: halted is false after construction and changes from false to true
\* only at the fetch completion of an HLT opcode (internal, operation 000,
\* F1 = 000, F2 = 000); no other opcode, no template completion and no
\* device action sets it.
C31_HaltOnlyByHlt ==
  /\ ~cpu.halted
  /\ [][(~cpu.halted /\ cpu'.halted) =>
          /\ FetchCompletesOn(HLT_OPCODE)
          /\ ~IsExternal(cpu.opcode)
          /\ OperationOf(cpu.opcode) = 0
          /\ F1Of(cpu.opcode) = 0
          /\ F2Of(cpu.opcode) = 0]_vars

\* the CPU has halted on an HLT that followed another instruction
C31_Witness ==
  /\ cpu.halted
  /\ cpu.opcode = HLT_OPCODE
  /\ obs.fetches >= 2
  /\ obs.decoded.prev # null
  /\ cpu.busSequence = "INSTRUCTION_FETCH"

---------------------------------------------------------------------------
\* the shift or rotate of secondary opcode k (SLL = 1, RLC = 2, SLLC = 3,
\* SLR = 4, SAR = 5, RRC = 6, SARC = 7) decoded last has completed
ShiftDone(k) ==
  /\ Executed
  /\ ~IsExternal(obs.decoded.opcode)
  /\ OperationOf(obs.decoded.opcode) = 1
  /\ F1Of(obs.decoded.opcode) = k

\* 1 when the flag is set, 0 when it is clear
Num(flag) == IF flag THEN 1 ELSE 0

\* C32: for Rd with d in 0..3 and all entry values of C and O: RLC Rd gives
\* new C = old bit 15 and Rd = ((Rd << 1) | old C) mod 2^16, leaving O
\* unchanged; RLC Rd,2 gives new C = old bit 15, new O = old bit 14 and
\* Rd = ((Rd << 2) | (old C << 1) | old O) mod 2^16; RRC Rd gives new C = old
\* bit 0 and Rd = (Rd >> 1) | (old C << 15), leaving O unchanged; RRC Rd,2
\* gives new C = old bit 0, new O = old bit 1 and
\* Rd = (Rd >> 2) | (old C << 14) | (old O << 15); Z is set iff the result is
\* 0, and S is bit 15 of the result for RLC and bit 7 of the result for RRC.
C32_Rotates ==
  LET w == obs.decoded.opcode
      d == F2Of(w) % 4
      double == F2Of(w) >= 4
      b == obs.exec.r[d]
      oldC == Num(obs.before.flags.c)
      oldO == Num(obs.before.flags.o)
  IN  /\ ShiftDone(2) =>
           /\ cpu.r[d] = IF double THEN ((b * 4) % 65536) + oldC * 2 + oldO
                                   ELSE ((b * 2) % 65536) + oldC
           /\ cpu.c <=> Bit(b, 15) = 1
           /\ cpu.o <=> IF double THEN Bit(b, 14) = 1 ELSE obs.before.flags.o
           /\ cpu.z <=> cpu.r[d] = 0
           /\ cpu.s <=> Bit(cpu.r[d], 15) = 1
      /\ ShiftDone(6) =>
           /\ cpu.r[d] = IF double THEN (b \div 4) + oldC * 16384 + oldO * 32768
                                   ELSE (b \div 2) + oldC * 32768
           /\ cpu.c <=> Bit(b, 0) = 1
           /\ cpu.o <=> IF double THEN Bit(b, 1) = 1 ELSE obs.before.flags.o
           /\ cpu.z <=> cpu.r[d] = 0
           /\ cpu.s <=> Bit(cpu.r[d], 7) = 1

\* RRC R2,2 on $0002 entered with C = 1 and O = 0 has left $4000 with C = 0,
\* O = 1, S = 0 and Z = 0
C32_Witness ==
  /\ ShiftDone(6)
  /\ obs.decoded.opcode = IntOp(1, 6, 6)
  /\ obs.exec.r[2] = 2
  /\ obs.before.flags.c /\ ~obs.before.flags.o
  /\ cpu.r[2] = 16384
  /\ ~cpu.c /\ cpu.o /\ ~cpu.s /\ ~cpu.z

---------------------------------------------------------------------------
\* C33: SLL, SLR and SAR (by 1 or 2 bits) never change C or O; SLLC sets
\* C = old bit 15 (and, when doubled, O = old bit 14) and SARC sets C = old
\* bit 0 (and, when doubled, O = old bit 1), and neither shifts an old link
\* bit into the result; SLL and SLLC shift zeros in from the right, SLR
\* shifts zeros in from the left, SAR and SARC replicate old bit 15 into the
\* vacated high bits; S is bit 15 of the result for the left shifts and bit 7
\* of the result for the right shifts, and Z is set iff the result is 0.
C33_Shifts ==
  LET w == obs.decoded.opcode
      d == F2Of(w) % 4
      double == F2Of(w) >= 4
      n == IF double THEN 2 ELSE 1
      b == obs.exec.r[d]
      leftShifted == (b * Pow2(n)) % 65536
      rightShifted == b \div Pow2(n)
      signFill == IF Bit(b, 15) = 0 THEN 0
                  ELSE IF double THEN 32768 + 16384 ELSE 32768
  IN  \A k \in {1, 3, 4, 5, 7} :
        ShiftDone(k) =>
          /\ cpu.r[d] = CASE k \in {1, 3} -> leftShifted
                          [] k = 4 -> rightShifted
                          [] k \in {5, 7} -> signFill + rightShifted
          /\ SameRegisters(cpu.r, obs.exec.r, {d})
          /\ cpu.z <=> cpu.r[d] = 0
          /\ cpu.s <=> Bit(cpu.r[d], IF k \in {1, 3} THEN 15 ELSE 7) = 1
          /\ k \in {1, 4, 5} =>
               (cpu.c = obs.before.flags.c /\ cpu.o = obs.before.flags.o)
          /\ k = 3 => (cpu.c <=> Bit(b, 15) = 1)
          /\ k = 7 => (cpu.c <=> Bit(b, 0) = 1)
          /\ (k = 3 /\ double) => (cpu.o <=> Bit(b, 14) = 1)
          /\ (k = 7 /\ double) => (cpu.o <=> Bit(b, 1) = 1)
          /\ (k \in {3, 7} /\ ~double) => cpu.o = obs.before.flags.o

\* SARC R2,2 on $8001 entered with C = 0 and O = 1 has left $E000 with C = 1,
\* O = 0, Z = 0 and S = 0 from bit 7
C33_Witness ==
  /\ ShiftDone(7)
  /\ obs.decoded.opcode = IntOp(1, 7, 6)
  /\ obs.exec.r[2] = 32769
  /\ ~obs.before.flags.c /\ obs.before.flags.o
  /\ cpu.r[2] = 57344
  /\ cpu.c /\ ~cpu.o /\ ~cpu.z /\ ~cpu.s

\* SLL R2 on $7FFF entered with C = 1 has left $FFFE with S = 1 and C = 1
C33_SllKeepsCarry ==
  /\ ShiftDone(1)
  /\ obs.exec.r[2] = 32767
  /\ obs.before.flags.c
  /\ cpu.r[2] = 65534
  /\ cpu.s /\ cpu.c

---------------------------------------------------------------------------
\* C34: NEGR Rd follows the SUB-family rules with b = 0 and a = Rd: Rd
\* becomes (0 - Rd) mod 2^16; C is set iff the old Rd was 0; O is set iff the
\* old Rd was $8000; Z is set iff the result is 0; S is bit 15 of the result.
C34_Negr ==
  LET w == obs.decoded.opcode
      d == F2Of(w)
      a == obs.exec.r[d]
      result == (65536 - a) % 65536
      subr == RegisterForm(4, a, 0, obs.before.flags)
  IN  SingleRegisterDone(4) =>
        /\ cpu.r[d] = result
        /\ SameRegisters(cpu.r, obs.exec.r, {d})
        /\ cpu.c <=> a = 0
        /\ cpu.o <=> a = 32768
        /\ cpu.z <=> result = 0
        /\ cpu.s <=> Bit(result, 15) = 1
        /\ cpu.r[d] = subr.r[1]
        /\ Szoc(Flags(cpu)) = Szoc(Flags(subr))

\* NEGR R2 on $8000 entered with every flag clear has left $8000 with O = 1,
\* S = 1, C = 0 and Z = 0
C34_Witness ==
  /\ SingleRegisterDone(4)
  /\ obs.exec.r[2] = 32768
  /\ Szoc(obs.before.flags) = <<FALSE, FALSE, FALSE, FALSE>>
  /\ cpu.r[2] = 32768
  /\ cpu.o /\ cpu.s /\ ~cpu.c /\ ~cpu.z

---------------------------------------------------------------------------
\* the word decoded last lies above $03FF, outside every opcode range, and
\* the word after it has not been fetched yet
UnlistedDecoded ==
  /\ obs.decoded.valid
  /\ obs.decoded.opcode > 1023
  /\ obs.fetches = 1

\* C35: a fetched word for which the instruction table has no entry (such as
\* one above $03FF) is a silent no-op: the CPU does not abort, resumes
\* INSTRUCTION_FETCH at the following word, and modifies no register other
\* than the R7 advance of the fetch itself.
C35_UnlistedIsNoOp ==
  UnlistedDecoded =>
    /\ ~thrown
    /\ ~cpu.halted
    /\ cpu.busSequence = "INSTRUCTION_FETCH"
    /\ obs.decoded.seq = "INSTRUCTION_FETCH"
    /\ cpu.r[7] = W16(obs.decoded.at + 1)
    /\ SameRegisters(cpu.r, obs.before.r, {7})
    /\ Flags(cpu) = obs.before.flags

---------------------------------------------------------------------------
\* at a tick boundary, the address the devices decoded last lies in no
\* device's window
UnmappedAccess ==
  /\ pc = 0
  /\ obs.target # null
  /\ Owners(mem, obs.target) = {}

\* the CPU, in slot 2 of a DTB micro-cycle, has taken the word w from the bus
Sampled(w) ==
  CASE cpu.busSequence = "JUMP" ->
         IF cpu.jumpOperand2 # null THEN cpu.jumpOperand2 = w
         ELSE cpu.jumpOperand1 = w
    [] OTHER -> DtbSample(cpu, w) = cpu

\* C36: a bus access whose address lies in no memory device's window raises
\* no error: at tick 3 of the BAR (or ADAR) every device clears its
\* selection, no device drives Bus.data at the following DTB and no device
\* stores at the following DWS, no memory word changes, and because Bus.data
\* has relaxed to $FFFF by the end of the intervening NACT micro-cycle a read
\* of such an address delivers $FFFF to the CPU.
C36_UnmappedAccess ==
  UnmappedAccess =>
    /\ ~thrown
    /\ \A k \in DOMAIN mem : mem[k].addr = null
    /\ MemData(mem) = obs.start.data
    /\ bus.flags = DTB =>
         /\ obs.drivers = {}
         /\ bus.data = 65535
         /\ cpu.ts = 2 => Sampled(65535)

\* MVI@ R2,R3 after DECR R2 has read $FFFF from the address $FFFF, which no
\* device holds
C36_Witness ==
  /\ UnmappedAccess
  /\ obs.target = 65535
  /\ obs.decoded.opcode = ExtOp(MVI, 2, 3)
  /\ cpu.busSequence = "ADDRESS_INDIRECT_READ"
  /\ bus.flags = DTB
  /\ cpu.ts = 2
  /\ cpu.dtbData = 65535

\* MVO R1,$0FFF has ended its DWS micro-cycle and no device has stored
C36_UnmappedStore ==
  /\ UnmappedAccess
  /\ obs.target = 4095
  /\ bus.flags = DWS
  /\ bus.ticks = 3
  /\ MemData(mem) = obs.start.data

---------------------------------------------------------------------------
\* the instruction decoded last is an external read (MVI, ADD, SUB, CMP, AND
\* or XOR) whose F1 field is k
ExternalReadDecoded(k) ==
  /\ obs.decoded.valid
  /\ IsExternal(obs.decoded.opcode)
  /\ OperationOf(obs.decoded.opcode) \in {MVI, ADD, SUB, CMP, AND, XOR}
  /\ F1Of(obs.decoded.opcode) = k

\* the decode of the last instruction chose the indirect read template with
\* R7 as the effective address and moved R7 past the inline operand
InlineOperand ==
  LET size == IF obs.decoded.d THEN 2 ELSE 1 IN
  /\ obs.decoded.seq = IF obs.decoded.d THEN "ADDRESS_INDIRECT_READ_SDBD"
                       ELSE "ADDRESS_INDIRECT_READ"
  /\ BusSequences["ADDRESS_INDIRECT_READ"] = <<BAR, NACT, DTB, NACT>>
  /\ BusSequences["ADDRESS_INDIRECT_READ_SDBD"] = <<BAR, NACT, DTB, BAR, NACT, DTB>>
  /\ obs.decoded.ea = obs.decoded.rBefore[7]
  /\ obs.decoded.rAfter[7] = W16(obs.decoded.rBefore[7] + size)
  /\ SameRegisters(obs.decoded.rAfter, obs.decoded.rBefore, {7})

C37_DoubleByteInline ==
  /\ ExternalReadDecoded(7)
  /\ obs.decoded.d
  /\ obs.decoded.seq = "ADDRESS_INDIRECT_READ_SDBD"

---------------------------------------------------------------------------
\* the bus is in a DW or DWS micro-cycle
Writing(b) == b.flags \in {DW, DWS}

\* C38: on the bus, a DW micro-cycle is always immediately followed by a DWS
\* micro-cycle and DWS occurs only immediately after DW, and Bus.data holds
\* one unchanged value, the R[F2] of the writing instruction, from the first
\* tick of DW through tick 3 of DWS.
C38_WriteCycle ==
  [][/\ (bus.flags = DW /\ bus'.flags # DW) => bus'.flags = DWS
     /\ (bus'.flags = DWS /\ bus.flags # DWS) => bus.flags = DW
     /\ (bus.flags # bus'.flags /\ (Writing(bus) \/ Writing(bus'))) =>
          (bus.ticks = 0 /\ bus'.ticks = 0)
     /\ Writing(bus') =>
          /\ obs'.decoded.valid
          /\ OperationOf(obs'.decoded.opcode) = MVO
          /\ bus'.data = cpu'.r[F2Of(obs'.decoded.opcode)]
     /\ (Writing(bus) /\ Writing(bus')) => bus'.data = bus.data]_vars

\* PSHR R1 after MVII #$8001,R1: at the end of tick 3 of DWS the bus still
\* holds $8001
C38_Witness ==
  /\ pc = 0
  /\ bus.flags = DWS
  /\ bus.ticks = 3
  /\ obs.decoded.opcode = ExtOp(MVO, 6, 1)
  /\ bus.data = 32769
  /\ cpu.r[1] = 32769

---------------------------------------------------------------------------
\* the eight bus phases
BusPhases == {NACT, ADAR, IAB, DTB, BAR, DW, DWS, INTAK}

\* C39: for every fetched word, the template index is a valid position of
\* the current template at the start of every CPU tick, every decode selects
\* one of the defined templates, and neither the CPU's nor a memory device's
\* clock() reaches an unreachable-case abort: the phase on the bus is one of
\* the eight phases and the decoded fields are three-bit values.
C39_NoAbort ==
  /\ ~thrown
  /\ cpu.busSequence \in DOMAIN BusSequences
  /\ cpu.busSequenceIndex + 1 \in DOMAIN BusSequences[cpu.busSequence]
  /\ obs.decoded.valid => obs.decoded.seq \in DOMAIN BusSequences
  /\ bus.flags \in BusPhases
  /\ cpu.operation \in 0 .. 7
  /\ cpu.f1 \in 0 .. 7
  /\ cpu.f2 \in 0 .. 7

\* the CPU is about to be clocked in the last slot of the last step of the
\* longest template, selected by the decode of MVO R7,$0000
C39_Witness ==
  /\ pc = 1
  /\ ~thrown
  /\ obs.decoded.opcode = ExtOp(MVO, 0, 7)
  /\ cpu.busSequence = "ADDRESS_DIRECT_WRITE"
  /\ cpu.busSequenceIndex + 1 = Len(BusSequences["ADDRESS_DIRECT_WRITE"])
  /\ cpu.ts = 2

\* the word $FFFF has been decoded and its sequence has completed
C39_WideWord ==
  /\ obs.decoded.valid
  /\ obs.decoded.opcode = 65535
  /\ obs.exec.valid
  /\ cpu.busSequence = "INSTRUCTION_FETCH"
  /\ ~thrown

---------------------------------------------------------------------------
\* the outcome of a host tick: registers and flags, memory contents, Bus
\* phase and data, and whether a clock() aborted
Outcome(b, c, m, t) == [bus |-> b, cpu |-> c, mem |-> m, thrown |-> t]

\* C40: with non-overlapping memory windows, the outcome of a host tick does
\* not depend on the order in which the CPU and the memory devices are
\* clocked after Bus.clock(): every tick, in whatever order it clocks the
\* devices, leaves the registers, the flags, the memory contents and the Bus
\* phase and data that the registration order leaves.
C40_OrderIndependent ==
  [][Outcome(bus', cpu', mem', thrown') = TickInOrder(bus, cpu, mem, Registration)]_vars

\* PSHR R1 has stored $8001 at the end of tick 3 of DWS, the tick in which
\* the CPU drives Bus.data and the RAM latches it
C40_Witness ==
  /\ bus.flags = DWS
  /\ bus.ticks = 3
  /\ bus.data = 32769
  /\ mem[1].addr = 0
  /\ mem[1].data[1] = 32769

===========================================================================
